---- MODULE Spec2Model ----
(***************************************************************************)
(* tender-digest: incremental discovery of newly published tenders.        *)
(*                                                                         *)
(* The model covers the discovery driver (findNew), the sqlite-backed      *)
(* dedup/watermark store (store.add, store.maxIssued, store.maxObserved)   *)
(* and the listing clients the driver pages through: the token-session and *)
(* form-session clients (issued-date watermark) and the browser-session    *)
(* client (first-observed watermark, payloads captured by a response       *)
(* hook).  Spec is the program run after run; QueueSpec and QueueFairSpec  *)
(* are the browser-session Client's capture queue on its own, ClientSpec a *)
(* token- or form-session Client under any caller, ShareSpec two runs on   *)
(* one store.                                                              *)
(*                                                                         *)
(* Times are tuples <<year, month, day, tod>>, tod being the time of day   *)
(* (0 is midnight).  Text stored in the table is a tuple as well: a        *)
(* "2006-01-02" text is <<y, m, d>>, a full timestamp text is              *)
(* <<y, m, d, tod>>.                                                       *)
(***************************************************************************)
EXTENDS Integers, Sequences, FiniteSets, TLC

VARIABLES
    variant,    \* which build of the program runs: "token", "form" or "browser"
    pageSize,   \* number of records the upstream source puts on one page
    source,     \* the upstream listing, in listing order
    clock,      \* index into Nows: the wall clock
    tenders,    \* the tenders table, rows in insertion order
    ready,      \* Client.ready
    vals,       \* form-session: Client.vals, the form fields List sends
    uiPage,     \* browser-session: page shown by the browser (0: none)
    inflight,   \* browser-session: responses whose hook goroutine has not
                \* got to responsesMu.Lock() yet, in the order the hook saw them
    responsesMu,\* browser-session: Client.responsesMu is locked
    appending,  \* browser-session: payloads of the hook goroutines that are
                \* past responsesMu.Lock() and have not appended yet
    responses,  \* browser-session: Client.responses
    pc,         \* position of the run: idle, list, dequeue (List is at
                \* responsesMu.Lock()), locked (List is past it), records, done
    max,        \* findNew: max
    start,      \* findNew: start (cutoff in the browser-session build)
    nt,         \* findNew: nt
    token,      \* findNew: token
    ct,         \* findNew: records of the current page not yet ranged over
    nextToken,  \* findNew: nextToken
    ret,        \* what findNew returned: [nt, err]
    runs,       \* number of completed runs
    calls,      \* history: the List calls of this run
    added,      \* history: the add calls of this run
    exitAt,     \* history: <<#add calls, #List calls>> at the early exit
    begin,      \* history: table and clock when this run started
    last,       \* history: how the previous run ended, whether the listing
                \* is still the one it saw, and (where the specification
                \* keeps it) the ids in the results of the runs that ended
    log,        \* history: what this run's Client did, in order
    other       \* a second run of the program on the same table: its
                \* position, ct, nt, add calls and result

vars == <<variant, pageSize, source, clock, tenders, ready, uiPage, inflight,
          responsesMu, appending, responses, pc, max, start, nt, token, ct, nextToken, ret,
          runs, calls, added, exitAt, begin, last, log, vals, other>>

(***************************************************************************)
(* Bounds.                                                                 *)
(***************************************************************************)
MaxSource == 3
MaxRuns == 2
MaxPageSize == 2
MaxPayloads == 3
MaxCalls == 3

(***************************************************************************)
(* Calendar arithmetic of the time package, as findNew uses it.            *)
(***************************************************************************)
ZeroTime == <<1, 1, 1, 0>>

IsZero(t) == t = ZeroTime

IsLeap(y) == (y % 4 = 0 /\ y % 100 # 0) \/ y % 400 = 0

DaysIn(y, m) ==
    CASE m \in {4, 6, 9, 11} -> 30
      [] m = 2 -> IF IsLeap(y) THEN 29 ELSE 28
      [] OTHER -> 31

\* t.Before(u): t is strictly earlier than u
Before(t, u) ==
    \/ t[1] < u[1]
    \/ t[1] = u[1] /\ t[2] < u[2]
    \/ t[1] = u[1] /\ t[2] = u[2] /\ t[3] < u[3]
    \/ t[1] = u[1] /\ t[2] = u[2] /\ t[3] = u[3] /\ t[4] < u[4]

\* t.AddDate(0, -months, 0) for 1 <= months <= 11: the month is moved back
\* and a day past the end of the resulting month overflows into the next one
AddDate(t, months) ==
    LET mm  == t[2] - months
        y1  == IF mm <= 0 THEN t[1] - 1 ELSE t[1]
        m1  == IF mm <= 0 THEN mm + 12 ELSE mm
        dim == DaysIn(y1, m1)
    IN  IF t[3] <= dim
        THEN <<y1, m1, t[3], t[4]>>
        ELSE <<IF m1 = 12 THEN y1 + 1 ELSE y1,
               IF m1 = 12 THEN 1 ELSE m1 + 1,
               t[3] - dim, t[4]>>

\* time.Parse accepts a date only when its month has that day
ValidDate(d) == d[2] \in 1..12 /\ d[3] \in 1..DaysIn(d[1], d[2])

\* t.Format(dateFormat) with dateFormat = "2006-01-02": the time of day is dropped
Format(t) == <<t[1], t[2], t[3]>>

\* how the sqlite driver writes a time.Time argument: date and time of day
TimeText(t) == <<t[1], t[2], t[3], t[4]>>

\* time.Parse(dateFormat, s): fails on text that is not exactly a date
Parse(s) ==
    IF Len(s) = 3
    THEN [ok |-> TRUE, t |-> <<s[1], s[2], s[3], 0>>]
    ELSE [ok |-> FALSE, t |-> ZeroTime]

\* order of two texts under sqlite's max(): byte-wise, i.e. position by position
TextLess(a, b) ==
    \E i \in 1..Len(a) :
        /\ a[i] < b[i]
        /\ \A j \in 1..(i - 1) : a[j] = b[j]

(***************************************************************************)
(* The upstream source: what the listing can hold, and the wall clock.     *)
(***************************************************************************)
Raw(id, title, issued, closing) ==
    [ID |-> id, Title |-> title, PostDate |-> issued, ClosingDate |-> closing]

Upstream ==
    { Raw("T1", "a",  <<2023, 4, 1, 0>>,  <<2023, 5, 1, 1>>),
      Raw("T2", "b",  <<2023, 3, 31, 0>>, <<2023, 3, 1, 1>>),
      Raw("T3", "c",  <<2023, 2, 28, 0>>, <<2023, 3, 1, 1>>),
      Raw("T3", "c2", <<2023, 3, 1, 0>>,  <<2023, 2, 1, 1>>),
      Raw("T1", "a2", <<2023, 4, 1, 0>>,  <<2023, 2, 30, 1>>) }

Nows == << <<2023, 6, 30, 1>>, <<2023, 7, 1, 1>> >>

Now == Nows[clock]

Min(a, b) == IF a < b THEN a ELSE b

\* the records the source puts on page p
PageOf(src, p, size) == SubSeq(src, (p - 1) * size + 1, Min(p * size, Len(src)))

\* whether the source has records after page p
HasMore(src, p, size) == p * size < Len(src)

(***************************************************************************)
(* The store.                                                              *)
(***************************************************************************)
Row(t, now) ==
    [id |-> t.ID, url |-> t.URL, description |-> t.Description,
     agency |-> t.Agency, issued |-> Format(t.IssuedDate),
     close |-> Format(t.CloseDate), first_observed |-> TimeText(now)]

\* add with a plain insert, which a conflicting id makes fail
add_plainInsert(tbl, t, now) ==
    LET conflict == \E i \in 1..Len(tbl) : tbl[i].id = t.ID
    IN  [tenders |-> IF conflict THEN tbl ELSE Append(tbl, Row(t, now)),
         isNew   |-> ~conflict,
         err     |-> conflict]

\* add with "RowsAffected() >= 0" in place of "> 0"
add_alwaysNew(tbl, t, now) ==
    LET conflict == \E i \in 1..Len(tbl) : tbl[i].id = t.ID
    IN  [tenders |-> IF conflict THEN tbl ELSE Append(tbl, Row(t, now)),
         isNew   |-> TRUE,
         err     |-> FALSE]

\* add with "on conflict do update" in place of "on conflict do nothing"
add_upsert(tbl, t, now) ==
    LET conflict == \E i \in 1..Len(tbl) : tbl[i].id = t.ID
    IN  [tenders |-> IF conflict
                     THEN [i \in 1..Len(tbl) |->
                             IF tbl[i].id = t.ID THEN Row(t, now) ELSE tbl[i]]
                     ELSE Append(tbl, Row(t, now)),
         isNew   |-> ~conflict,
         err     |-> FALSE]

\* add with "insert or replace": the row that is there is dropped, the new
\* one inserted, and one row is affected
add_replace(tbl, t, now) ==
    [tenders |-> Append(SelectSeq(tbl, LAMBDA r : r.id # t.ID), Row(t, now)),
     isNew   |-> TRUE,
     err     |-> FALSE]

\* insert ... on conflict do nothing: a row whose id is already there makes
\* the statement a no-op and not an error; isNew is RowsAffected() > 0
add(tbl, t, now) ==
    LET conflict == \E i \in 1..Len(tbl) : tbl[i].id = t.ID
        ra       == IF conflict THEN 0 ELSE 1
    IN  [tenders |-> IF conflict THEN tbl ELSE Append(tbl, Row(t, now)),
         isNew   |-> ra > 0,
         err     |-> FALSE]

\* store.mark of the file-backed store: the table is the directory, a row
\* the file named by the id; O_CREATE|O_EXCL creates the file or fails on
\* the one that exists, in one step of the file system
mark(tbl, id) ==
    LET exists == \E i \in 1..Len(tbl) : tbl[i].id = id
    IN  [tenders |-> IF exists THEN tbl ELSE Append(tbl, [id |-> id]),
         isNew   |-> ~exists,
         err     |-> FALSE]

\* the store call of findNew's loop in build var
StoreAdd(var, tbl, t, now) ==
    IF var = "file" THEN mark(tbl, t.ID) ELSE add(tbl, t, now)

\* select max(col): the greatest text of the column
MaxText(texts) == CHOOSE s \in texts : \A u \in texts : ~TextLess(s, u)

\* maxIssued reading the issued text of the newest row instead of max(issued)
maxIssued_lastRow(tbl) ==
    IF Len(tbl) = 0
    THEN ZeroTime
    ELSE LET p == Parse(tbl[Len(tbl)].issued)
         IN  IF p.ok THEN p.t ELSE ZeroTime

maxIssued(tbl) ==
    IF Len(tbl) = 0
    THEN ZeroTime
    ELSE LET p == Parse(MaxText({tbl[i].issued : i \in 1..Len(tbl)}))
         IN  IF p.ok THEN p.t ELSE ZeroTime

maxObserved(tbl) ==
    IF Len(tbl) = 0
    THEN ZeroTime
    ELSE LET p == Parse(MaxText({tbl[i].first_observed : i \in 1..Len(tbl)}))
         IN  IF p.ok THEN p.t ELSE ZeroTime

(***************************************************************************)
(* The clients.                                                            *)
(***************************************************************************)
MapSeq(f(_), s) == [i \in 1..Len(s) |-> f(s[i])]

\* strconv.Atoi on a token that List itself produced with fmt.Sprint
AtoiOK(s) == \E n \in 0..(MaxSource + 2) : ToString(n) = s

Atoi(s) == CHOOSE n \in 0..(MaxSource + 2) : ToString(n) = s

\* token-session: PostDate is a date, ClosingDate is cut to its date part
TokenTender(d) ==
    [ID |-> d.ID, URL |-> <<"tenders", d.ID>>, Description |-> d.Title,
     Agency |-> "HRM",
     IssuedDate |-> <<d.PostDate[1], d.PostDate[2], d.PostDate[3], 0>>,
     CloseDate |-> <<d.ClosingDate[1], d.ClosingDate[2], d.ClosingDate[3], 0>>]

\* browser-session conversion that leaves the placeholder year as it is
BrowserTender_asListed(d, now) ==
    [ID |-> d.ID, URL |-> <<"Detail", d.ID>>, Description |-> d.Title,
     Agency |-> "HRM", IssuedDate |-> d.PostDate, CloseDate |-> d.ClosingDate]

\* browser-session: display dates carry the time of day; the placeholder
\* year 9999 is replaced by the current time
BrowserTender(d, now) ==
    [ID |-> d.ID, URL |-> <<"Detail", d.ID>>, Description |-> d.Title,
     Agency |-> "HRM",
     IssuedDate |-> IF d.PostDate[1] = 9999 THEN now ELSE d.PostDate,
     CloseDate |-> IF d.ClosingDate[1] = 9999 THEN now ELSE d.ClosingDate]

\* an error return that still hands out a cursor
Failed_withNext(rdy) == [err |-> TRUE, ts |-> <<>>, next |-> "next", ready |-> rdy]

Failed(rdy) == [err |-> TRUE, ts |-> <<>>, next |-> "", ready |-> rdy]

\* what a Client does, as the log keeps it: the session handshake completes
\* ("init") or fails ("initfail"), List sends its request for a page
\* ("request"), the browser clicks "next page" ("click"), the hook appends a
\* payload to the queue ("append"), List takes one from it ("dequeue") or
\* finds it empty ("nodata"); page is the page number, or the payload
Event(ev, page) == [ev |-> ev, page |-> page]

\* whether a record of the page has a date time.Parse rejects
BadDates(raws) ==
    \E i \in 1..Len(raws) :
        ~ValidDate(raws[i].PostDate) \/ ~ValidDate(raws[i].ClosingDate)

\* token-session Client.List with an init that does not look at f.ready
TokenList_reinit(rdy, tok, src, size, net) ==
    IF net = "authfail"
    THEN Failed(FALSE) @@ [ev |-> <<Event("initfail", 0)>>]
    ELSE IF tok # "" /\ ~AtoiOK(tok)
    THEN Failed(TRUE) @@ [ev |-> <<Event("init", 0)>>]
    ELSE LET page == IF tok # "" THEN Atoi(tok) ELSE 1
             ev   == <<Event("init", 0), Event("request", page)>>
             raws == PageOf(src, page, size)
             ts   == MapSeq(TokenTender, raws)
         IN  IF net = "fail" \/ BadDates(raws)
             THEN Failed(TRUE) @@ [ev |-> ev]
             ELSE [err |-> FALSE, ts |-> ts,
                   next |-> IF Len(ts) > 0 THEN ToString(page + 1) ELSE "",
                   ready |-> TRUE, ev |-> ev]

\* token-session Client.List going on to the page request after a failed
\* authenticate call
TokenList_ignoreAuth(rdy, tok, src, size, net) ==
    LET e0   == IF rdy THEN <<>>
                ELSE IF net = "authfail" THEN <<Event("initfail", 0)>>
                ELSE <<Event("init", 0)>>
        rdy1 == rdy \/ net # "authfail"
        page == IF tok # "" THEN Atoi(tok) ELSE 1
        ev   == Append(e0, Event("request", page))
        raws == PageOf(src, page, size)
        ts   == MapSeq(TokenTender, raws)
    IN  IF net = "fail" \/ BadDates(raws)
        THEN Failed(rdy1) @@ [ev |-> ev]
        ELSE [err |-> FALSE, ts |-> ts,
              next |-> IF Len(ts) > 0 THEN ToString(page + 1) ELSE "",
              ready |-> rdy1, ev |-> ev]

\* token-session Client.List leaving out the records whose dates do not parse
TokenList_skipBad(rdy, tok, src, size, net) ==
    IF ~rdy /\ net = "authfail"
    THEN Failed(FALSE) @@ [ev |-> <<Event("initfail", 0)>>]
    ELSE LET e0 == IF rdy THEN <<>> ELSE <<Event("init", 0)>>
         IN  IF tok # "" /\ ~AtoiOK(tok)
             THEN Failed(TRUE) @@ [ev |-> e0]
             ELSE LET page == IF tok # "" THEN Atoi(tok) ELSE 1
                      ev   == Append(e0, Event("request", page))
                      raws == SelectSeq(PageOf(src, page, size),
                                        LAMBDA d : ~BadDates(<<d>>))
                      ts   == MapSeq(TokenTender, raws)
                  IN  IF net = "fail"
                      THEN Failed(TRUE) @@ [ev |-> ev]
                      ELSE [err |-> FALSE, ts |-> ts,
                            next |-> IF Len(ts) > 0 THEN ToString(page + 1) ELSE "",
                            ready |-> TRUE, ev |-> ev]

\* a response the browser reports to the hook: whether its URL is the
\* search endpoint's ("search") or not ("other"), whether its body can be
\* read and parsed ("ok"), cannot be read ("unreadable") or is not the JSON
\* of a listing page ("garbage"), and the page of records it carries
Response(url, body, data) == [url |-> url, body |-> body, data |-> data]

\* r.Body() and json.Unmarshal both succeed
Parseable(r) == r.body = "ok"

\* a response hook that starts a goroutine for every response
Hook_anyURL(infl, r) == Append(infl, r)

\* the response hook: a response of another URL is ignored, for one of the
\* search endpoint a goroutine is started
Hook(infl, r) == IF r.url = "search" THEN Append(infl, r) ELSE infl

\* sync.Mutex that lets everyone in
CanLock_always(m) == TRUE

\* sync.Mutex: Lock returns only while the mutex is not locked
CanLock(m) == ~m

\* a return that leaves the mutex as it is
Unlock_kept(m) == m

\* the deferred responsesMu.Unlock()
Unlock(m) == FALSE

\* token-session Client.List announcing a next page only after a full page
TokenList_shortPage(rdy, tok, src, size, net) ==
    IF ~rdy /\ net = "authfail"
    THEN Failed(FALSE) @@ [ev |-> <<Event("initfail", 0)>>]
    ELSE LET e0 == IF rdy THEN <<>> ELSE <<Event("init", 0)>>
         IN  IF tok # "" /\ ~AtoiOK(tok)
             THEN Failed(TRUE) @@ [ev |-> e0]
             ELSE LET page == IF tok # "" THEN Atoi(tok) ELSE 1
                      ev   == Append(e0, Event("request", page))
                      raws == PageOf(src, page, size)
                      ts   == MapSeq(TokenTender, raws)
                  IN  IF net = "fail" \/ BadDates(raws)
                      THEN Failed(TRUE) @@ [ev |-> ev]
                      ELSE [err |-> FALSE, ts |-> ts,
                            next |-> IF Len(ts) >= size THEN ToString(page + 1) ELSE "",
                            ready |-> TRUE, ev |-> ev]

\* token-session Client.List handing back the cursor of the page it served
TokenList_samePage(rdy, tok, src, size, net) ==
    IF ~rdy /\ net = "authfail"
    THEN Failed(FALSE) @@ [ev |-> <<Event("initfail", 0)>>]
    ELSE LET e0 == IF rdy THEN <<>> ELSE <<Event("init", 0)>>
         IN  IF tok # "" /\ ~AtoiOK(tok)
             THEN Failed(TRUE) @@ [ev |-> e0]
             ELSE LET page == IF tok # "" THEN Atoi(tok) ELSE 1
                      ev   == Append(e0, Event("request", page))
                      raws == PageOf(src, page, size)
                      ts   == MapSeq(TokenTender, raws)
                  IN  IF net = "fail" \/ BadDates(raws)
                      THEN Failed(TRUE) @@ [ev |-> ev]
                      ELSE [err |-> FALSE, ts |-> ts,
                            next |-> IF Len(ts) > 0 THEN ToString(page) ELSE "",
                            ready |-> TRUE, ev |-> ev]

\* token-session Client.List; net is what the network does to this call:
\* "ok", "authfail" (the authenticate call fails), "fail" (the page request
\* or a detail request fails).  A record whose dates do not parse fails the
\* whole call.
TokenList(rdy, tok, src, size, net) ==
    IF ~rdy /\ net = "authfail"
    THEN Failed(FALSE) @@ [ev |-> <<Event("initfail", 0)>>]
    ELSE LET e0 == IF rdy THEN <<>> ELSE <<Event("init", 0)>>
         IN  IF tok # "" /\ ~AtoiOK(tok)
             THEN Failed(TRUE) @@ [ev |-> e0]
             ELSE LET page == IF tok # "" THEN Atoi(tok) ELSE 1
                      ev   == Append(e0, Event("request", page))
                      raws == PageOf(src, page, size)
                      ts   == MapSeq(TokenTender, raws)
                  IN  IF net = "fail" \/ BadDates(raws)
                      THEN Failed(TRUE) @@ [ev |-> ev]
                      ELSE [err |-> FALSE, ts |-> ts,
                            next |-> IF Len(ts) > 0 THEN ToString(page + 1) ELSE "",
                            ready |-> TRUE, ev |-> ev]

\* the earlier token-session Client.List with "page++" outside the
\* "if len(ts) > 0": a cursor after every page, empty or not
TokenListV1_noEnd(rdy, tok, src, size, net) ==
    IF ~rdy /\ tok # ""
    THEN Failed(FALSE) @@ [ev |-> <<>>]
    ELSE LET r    == TokenList(rdy, tok, src, size, net)
             page == IF tok # "" THEN Atoi(tok) ELSE 1
         IN  IF r.err THEN r ELSE [r EXCEPT !.next = ToString(page + 1)]

\* the earlier token-session Client.List, which refuses a cursor while it
\* has no session
TokenListV1(rdy, tok, src, size, net) ==
    IF ~rdy /\ tok # ""
    THEN Failed(FALSE) @@ [ev |-> <<>>]
    ELSE TokenList(rdy, tok, src, size, net)

\* form-session: both dates are dates
FormTender(d) ==
    [ID |-> d.ID, URL |-> <<"tender", d.ID>>, Description |-> d.Title,
     Agency |-> "HRM",
     IssuedDate |-> <<d.PostDate[1], d.PostDate[2], d.PostDate[3], 0>>,
     CloseDate |-> <<d.ClosingDate[1], d.ClosingDate[2], d.ClosingDate[3], 0>>]

\* form-session Client.vals: the hidden fields of the form as the response
\* numbered from carried them (0: the initial GET, n: the POST for page n,
\* -1: none yet), and what List has set on top of them: the filter fields,
\* the filter button, the page-target fields (target is the page of
\* __EVENTARGUMENT, 0 when it is as the response carried it)
Captured(from) == [from |-> from, filter |-> FALSE, button |-> FALSE, target |-> 0]

NoVals == Captured(-1)

\* the vals.Set calls of List: vals is the map f.vals itself, not a copy
SetFields(v, page) ==
    IF page > 1
    THEN [v EXCEPT !.filter = TRUE, !.target = page]
    ELSE [v EXCEPT !.filter = TRUE, !.button = TRUE]

\* form-session Client.List that takes any cursor on its first call
FormList_anyCursor(rdy, tok, src, size, net, v) ==
    IF ~rdy /\ net = "initfail"
    THEN Failed(FALSE) @@ [ev |-> <<Event("initfail", 0)>>, vals |-> v]
    ELSE LET e0 == IF rdy THEN <<>> ELSE <<Event("init", 0)>>
             v0 == IF rdy THEN v ELSE Captured(0)
         IN  IF tok # "" /\ ~AtoiOK(tok)
             THEN Failed(TRUE) @@ [ev |-> e0, vals |-> v0]
             ELSE LET page == IF tok # "" THEN Atoi(tok) ELSE 1
                      v1   == SetFields(v0, page)
                      ev   == e0 \o <<Event("post", [sent |-> v1, page |-> page,
                                                     ok |-> net # "fail"]),
                                      Event("request", page)>>
                      raws == PageOf(src, page, size)
                      ts   == MapSeq(FormTender, raws)
                  IN  IF net = "fail"
                      THEN Failed(TRUE) @@ [ev |-> ev, vals |-> v1]
                      ELSE IF BadDates(raws)
                      THEN Failed(TRUE) @@ [ev |-> ev, vals |-> Captured(page)]
                      ELSE [err |-> FALSE, ts |-> ts,
                            next |-> IF Len(ts) >= size THEN ToString(page + 1) ELSE "",
                            ready |-> TRUE, ev |-> ev, vals |-> Captured(page)]

\* form-session Client.List that keeps the fields it sent
FormList_keepVals(rdy, tok, src, size, net, v) ==
    IF ~rdy /\ tok # ""
    THEN Failed(FALSE) @@ [ev |-> <<>>, vals |-> v]
    ELSE IF ~rdy /\ net = "initfail"
    THEN Failed(FALSE) @@ [ev |-> <<Event("initfail", 0)>>, vals |-> v]
    ELSE LET e0 == IF rdy THEN <<>> ELSE <<Event("init", 0)>>
             v0 == IF rdy THEN v ELSE Captured(0)
         IN  IF tok # "" /\ ~AtoiOK(tok)
             THEN Failed(TRUE) @@ [ev |-> e0, vals |-> v0]
             ELSE LET page == IF tok # "" THEN Atoi(tok) ELSE 1
                      v1   == SetFields(v0, page)
                      ev   == e0 \o <<Event("post", [sent |-> v1, page |-> page,
                                                     ok |-> net # "fail"]),
                                      Event("request", page)>>
                      raws == PageOf(src, page, size)
                      ts   == MapSeq(FormTender, raws)
                  IN  IF net = "fail"
                      THEN Failed(TRUE) @@ [ev |-> ev, vals |-> v1]
                      ELSE IF BadDates(raws)
                      THEN Failed(TRUE) @@ [ev |-> ev, vals |-> v1]
                      ELSE [err |-> FALSE, ts |-> ts,
                            next |-> IF Len(ts) >= size THEN ToString(page + 1) ELSE "",
                            ready |-> TRUE, ev |-> ev, vals |-> v1]

\* form-session Client.List; size is the page size it asks for; v is
\* f.vals; net: "ok", "initfail" (the initial GET fails), "fail" (the POST
\* is not answered with status 200 and a document).  A client that is not
\* ready refuses a cursor; the fields sent are f.vals with the filter fields
\* and the button or the page target set in it; f.vals is replaced by the
\* hidden fields of the response before the rows are parsed; a full page
\* announces a next one.
FormList(rdy, tok, src, size, net, v) ==
    IF ~rdy /\ tok # ""
    THEN Failed(FALSE) @@ [ev |-> <<>>, vals |-> v]
    ELSE IF ~rdy /\ net = "initfail"
    THEN Failed(FALSE) @@ [ev |-> <<Event("initfail", 0)>>, vals |-> v]
    ELSE LET e0 == IF rdy THEN <<>> ELSE <<Event("init", 0)>>
             v0 == IF rdy THEN v ELSE Captured(0)
         IN  IF tok # "" /\ ~AtoiOK(tok)
             THEN Failed(TRUE) @@ [ev |-> e0, vals |-> v0]
             ELSE LET page == IF tok # "" THEN Atoi(tok) ELSE 1
                      v1   == SetFields(v0, page)
                      ev   == e0 \o <<Event("post", [sent |-> v1, page |-> page,
                                                     ok |-> net # "fail"]),
                                      Event("request", page)>>
                      raws == PageOf(src, page, size)
                      ts   == MapSeq(FormTender, raws)
                  IN  IF net = "fail"
                      THEN Failed(TRUE) @@ [ev |-> ev, vals |-> v1]
                      ELSE IF BadDates(raws)
                      THEN Failed(TRUE) @@ [ev |-> ev, vals |-> Captured(page)]
                      ELSE [err |-> FALSE, ts |-> ts,
                            next |-> IF Len(ts) >= size THEN ToString(page + 1) ELSE "",
                            ready |-> TRUE, ev |-> ev, vals |-> Captured(page)]

\* the second run before it starts
NoOther == [pc |-> "idle", ct |-> <<>>, nt |-> <<>>, added |-> <<>>,
            ret |-> [nt |-> <<>>, err |-> FALSE]]

(***************************************************************************)
(* The discovery driver.                                                   *)
(***************************************************************************)
\* start falling back to the current time, as the browser-session build does
StartOf_now(m) == AddDate(IF IsZero(m) THEN Now ELSE m, 1)

\* findNew of the token-session build: start
StartOf(m) == IF ~IsZero(m) THEN AddDate(m, 1) ELSE m

\* cutoff without the margin when the table is empty
CutoffOf_noMargin(m, now) == IF IsZero(m) THEN now ELSE AddDate(m, 4)

\* findNew of the browser-session build: cutoff
CutoffOf(m, now) == AddDate(IF IsZero(m) THEN now ELSE m, 4)

\* the issued date compared in both builds
RelevantDate_issued(t) == t.IssuedDate

\* the date findNew compares
RelevantDate(t) == IF variant = "browser" THEN t.CloseDate ELSE t.IssuedDate

\* the comparison with its operands swapped
EarlyExit_swapped(t, cutoff) == Before(cutoff, RelevantDate(t))

\* the condition of "break outer"
EarlyExit(t, cutoff) == Before(RelevantDate(t), cutoff)

\* collecting at the front
Collect_prepend(ntv, t, isNew) == IF isNew THEN <<t>> \o ntv ELSE ntv

\* "if isNew { nt = append(nt, t) }"
Collect(ntv, t, isNew) == IF isNew THEN Append(ntv, t) ELSE ntv

\* the outer loop without its "if nextToken == "" { break }"
Advance_always(next) == "list"

\* the outer loop left after its first iteration, whatever the cursor
Advance_never(next) == "done"

\* the end of an iteration of the outer loop: next is the cursor List returned
Advance(next) == IF next = "" THEN "done" ELSE "list"

\* "break" in place of "break outer": only the range loop is left
Control_break(exit, rest, next) ==
    IF exit THEN IF next = "" THEN "done" ELSE "list"
    ELSE IF rest # <<>> THEN "records"
    ELSE IF next = "" THEN "done" ELSE "list"

\* the range loop without its "break outer"
Control_noExit(exit, rest, next) ==
    IF rest # <<>> THEN "records"
    ELSE IF next = "" THEN "done" ELSE "list"

\* where the loops go after a record (or after an empty page): rest is what
\* is left of the page
Control(exit, rest, next) ==
    IF exit THEN "done"
    ELSE IF rest # <<>> THEN "records"
    ELSE Advance(next)

NoRet == [nt |-> <<>>, err |-> FALSE]

\* an error return that hands out what was collected so far
ErrRet_partial(ntv) == [nt |-> ntv, err |-> TRUE]

\* "return nil, err"; ntv is findNew's nt at that point
ErrRet(ntv) == [nt |-> <<>>, err |-> TRUE]

Call(tok, r) == [token |-> tok, next |-> r.next, err |-> r.err, n |-> Len(r.ts)]

TypeOK ==
    /\ variant \in {"token", "token1", "form", "browser", "file"}
    /\ pageSize \in 1..MaxPageSize
    /\ clock \in 1..Len(Nows)
    /\ pc \in {"idle", "list", "dequeue", "locked", "records", "done"}
    /\ responsesMu \in BOOLEAN
    /\ runs \in 0..MaxRuns
    /\ Len(source) <= MaxSource

Init ==
    /\ variant \in {"token", "form", "browser"}
    /\ pageSize \in 1..MaxPageSize
    /\ source = <<>>
    /\ clock = 1
    /\ tenders = <<>>
    /\ ready = FALSE
    /\ vals = NoVals
    /\ other = NoOther
    /\ uiPage = 0
    /\ inflight = <<>>
    /\ responsesMu = FALSE
    /\ appending = <<>>
    /\ responses = <<>>
    /\ pc = "idle"
    /\ max = ZeroTime
    /\ start = ZeroTime
    /\ nt = <<>>
    /\ token = ""
    /\ ct = <<>>
    /\ nextToken = ""
    /\ ret = NoRet
    /\ runs = 0
    /\ calls = <<>>
    /\ added = <<>>
    /\ exitAt = <<0, 0>>
    /\ begin = [tenders |-> <<>>, clock |-> 1]
    /\ last = [ran |-> FALSE, err |-> FALSE, same |-> FALSE, reported |-> {}]
    /\ log = <<>>

\* the source publishes a tender (or republishes a revised one) at the head
\* of its listing
Publish(d) ==
    /\ pc = "idle"
    /\ runs < MaxRuns
    /\ LET others == SelectSeq(source, LAMBDA x : x.ID # d.ID)
       IN  /\ Len(others) < MaxSource
           /\ source' = <<d>> \o others
    /\ source' # source
    /\ last' = [last EXCEPT !.same = FALSE]
    /\ UNCHANGED <<variant, pageSize, clock, tenders, ready, uiPage, inflight,
                   responses, pc, max, start, nt, token, ct, nextToken, ret,
                   runs, calls, added, exitAt, begin, log>>
    /\ UNCHANGED <<responsesMu, appending, vals, other>>

Tick ==
    /\ clock < Len(Nows)
    /\ pc = "idle"
    /\ clock' = clock + 1
    /\ UNCHANGED <<variant, pageSize, source, tenders, ready, uiPage, inflight,
                   responses, pc, max, start, nt, token, ct, nextToken, ret,
                   runs, calls, added, exitAt, begin, last, log>>
    /\ UNCHANGED <<responsesMu, appending, vals, other>>

\* findNew up to the loop: the watermark query and the cutoff
FindNewStart ==
    /\ pc = "idle"
    /\ runs < MaxRuns
    /\ begin' = [tenders |-> tenders, clock |-> clock]
    /\ calls' = <<>>
    /\ added' = <<>>
    /\ exitAt' = <<0, 0>>
    /\ nt' = <<>>
    /\ token' = ""
    /\ \E dbOK \in BOOLEAN :
         IF dbOK
         THEN /\ max' = IF variant = "browser" THEN maxObserved(tenders)
                        ELSE maxIssued(tenders)
              /\ start' = IF variant = "browser" THEN CutoffOf(max', Now)
                          ELSE StartOf(max')
              /\ pc' = "list"
              /\ ret' = NoRet
         ELSE /\ pc' = "done"
              /\ ret' = ErrRet(<<>>)
              /\ UNCHANGED <<max, start>>
    /\ UNCHANGED <<variant, pageSize, source, clock, tenders, ready, uiPage,
                   inflight, responses, ct, nextToken, runs, last, log>>
    /\ UNCHANGED <<responsesMu, appending, vals, other>>

\* what findNew does with what List returned, up to the first record
AfterList(tok, r) ==
    /\ calls' = Append(calls, Call(tok, r))
    /\ log' = log \o r.ev
    /\ IF r.err
       THEN /\ pc' = "done"
            /\ ret' = ErrRet(nt)
            /\ UNCHANGED <<token, ct, nextToken>>
       ELSE LET to == Control(FALSE, r.ts, r.next)
            IN  /\ pc' = to
                /\ ct' = r.ts
                /\ nextToken' = IF to = "records" THEN r.next ELSE ""
                /\ token' = IF to = "list" THEN r.next ELSE token
                /\ ret' = IF to = "done" THEN [nt |-> nt, err |-> FALSE] ELSE ret

\* token-session build: one iteration's cl.List(ctx, token)
ListToken ==
    /\ pc = "list"
    /\ variant = "token"
    /\ \E net \in {"ok", "authfail", "fail"} :
         LET r == TokenList(ready, token, source, pageSize, net)
         IN  /\ ready' = r.ready
             /\ AfterList(token, r)
    /\ UNCHANGED <<variant, pageSize, source, clock, tenders, uiPage, inflight,
                   responses, max, start, nt, runs, added, exitAt, begin, last>>
    /\ UNCHANGED <<responsesMu, appending, vals, other>>

\* form-session build: one iteration's cl.List(ctx, token)
ListForm ==
    /\ pc = "list"
    /\ variant = "form"
    /\ \E net \in {"ok", "initfail", "fail"} :
         LET r == FormList(ready, token, source, pageSize, net, vals)
         IN  /\ ready' = r.ready
             /\ vals' = r.vals
             /\ AfterList(token, r)
    /\ UNCHANGED <<variant, pageSize, source, clock, tenders, uiPage, inflight,
                   responses, max, start, nt, runs, added, exitAt, begin, last>>
    /\ UNCHANGED <<responsesMu, appending, other>>

\* browser-session build, first half of Client.List: session bootstrap on
\* the first call, the "next page" click, the wait for the table.  Every UI
\* action makes the page issue its search request, whose response the hook
\* sees.  net: "ok", "initfail", "clickfail", "waitfail"
ListUI ==
    /\ pc = "list"
    /\ variant = "browser"
    /\ \E net \in {"ok", "initfail", "clickfail", "waitfail"} :
         LET initErr  == ~ready /\ net = "initfail"
             page1    == IF ready THEN uiPage ELSE 1
             resp1    == Response("search", "ok", PageOf(source, 1, pageSize))
             infl1    == IF ready THEN inflight ELSE Hook(inflight, resp1)
             ev1      == IF ready THEN <<>>
                         ELSE <<Event("init", 0), Event("observe", resp1)>>
             clickErr == token # "" /\ net = "clickfail"
             page2    == IF token # "" THEN page1 + 1 ELSE page1
             resp2    == Response("search", "ok", PageOf(source, page2, pageSize))
             infl2    == IF token # "" THEN Hook(infl1, resp2) ELSE infl1
             ev2      == IF token # ""
                         THEN ev1 \o <<Event("click", page2), Event("observe", resp2)>>
                         ELSE ev1
         IN  IF initErr
             THEN /\ AfterList(token, Failed(FALSE) @@ [ev |-> <<Event("initfail", 0)>>])
                  /\ UNCHANGED <<ready, uiPage, inflight>>
             ELSE IF clickErr
             THEN /\ ready' = TRUE
                  /\ uiPage' = page1
                  /\ inflight' = infl1
                  /\ AfterList(token, Failed(TRUE) @@
                                      [ev |-> Append(ev1, Event("click", page2))])
             ELSE /\ ready' = TRUE
                  /\ uiPage' = page2
                  /\ inflight' = infl2
                  /\ IF net = "waitfail"
                     THEN AfterList(token, Failed(TRUE) @@ [ev |-> ev2])
                     ELSE /\ pc' = "dequeue"
                          /\ log' = log \o ev2
                          /\ UNCHANGED <<calls, token, ct, nextToken, ret>>
    /\ UNCHANGED <<variant, pageSize, source, clock, tenders, responses, max,
                   start, nt, runs, added, exitAt, begin, last>>
    /\ UNCHANGED <<responsesMu, appending, vals, other>>

\* the goroutine of a response whose body cannot be read, or is not the
\* JSON of a listing page, returns
HookDrop ==
    /\ \E i \in 1..Len(inflight) :
         /\ ~Parseable(inflight[i])
         /\ inflight' = SubSeq(inflight, 1, i - 1) \o SubSeq(inflight, i + 1, Len(inflight))
         /\ log' = Append(log, Event("drop", inflight[i]))
    /\ UNCHANGED <<variant, pageSize, source, clock, tenders, ready, uiPage,
                   responsesMu, appending, responses, pc, max, start, nt, token,
                   ct, nextToken, ret, runs, calls, added, exitAt, begin, last>>
    /\ UNCHANGED <<vals, other>>

\* the goroutine of a response that was read and parsed gets
\* responsesMu.Lock(); the goroutines run in any order
HookLock ==
    /\ pc \in {"list", "dequeue", "locked", "records", "done"}
    /\ CanLock(responsesMu)
    /\ \E i \in 1..Len(inflight) :
         /\ Parseable(inflight[i])
         /\ appending' = Append(appending, inflight[i].data)
         /\ inflight' = SubSeq(inflight, 1, i - 1) \o SubSeq(inflight, i + 1, Len(inflight))
    /\ responsesMu' = TRUE
    /\ UNCHANGED <<variant, pageSize, source, clock, tenders, ready, uiPage,
                   responses, pc, max, start, nt, token, ct, nextToken, ret,
                   runs, calls, added, exitAt, begin, last, log>>
    /\ UNCHANGED <<vals, other>>

\* the goroutine holding the lock appends its payload and returns, which
\* unlocks
HookAppend ==
    /\ appending # <<>>
    /\ responses' = Append(responses, Head(appending))
    /\ log' = Append(log, Event("append", Head(appending)))
    /\ appending' = Tail(appending)
    /\ responsesMu' = Unlock(responsesMu)
    /\ UNCHANGED <<variant, pageSize, source, clock, tenders, ready, uiPage,
                   inflight, pc, max, start, nt, token, ct, nextToken, ret,
                   runs, calls, added, exitAt, begin, last>>
    /\ UNCHANGED <<vals, other>>

\* Client.List gets responsesMu.Lock()
ListLock ==
    /\ pc = "dequeue"
    /\ CanLock(responsesMu)
    /\ responsesMu' = TRUE
    /\ pc' = "locked"
    /\ log' = Append(log, Event("lock", 0))
    /\ UNCHANGED <<variant, pageSize, source, clock, tenders, ready, uiPage,
                   inflight, appending, responses, max, start, nt, token, ct,
                   nextToken, ret, runs, calls, added, exitAt, begin, last>>
    /\ UNCHANGED <<vals, other>>

\* Client.List taking the newest payload of the queue
BrowserDequeue_lifo(resp, src, page, size, now, net) ==
    LET r    == resp[Len(resp)]
        rest == SubSeq(resp, 1, Len(resp) - 1)
    IN  IF Len(resp) = 0
        THEN Failed(TRUE) @@ [responses |-> resp, ev |-> <<Event("nodata", 0)>>]
        ELSE IF BadDates(r) \/ net = "enabledfail"
        THEN Failed(TRUE) @@ [responses |-> rest, ev |-> <<Event("dequeue", r)>>]
        ELSE [err |-> FALSE,
              ts |-> MapSeq(LAMBDA d : BrowserTender(d, now), r),
              next |-> IF HasMore(src, page, size) THEN "next" ELSE "",
              ready |-> TRUE,
              responses |-> rest,
              ev |-> <<Event("dequeue", r)>>]

\* Client.List answering an empty queue with an empty last page
BrowserDequeue_noCheck(resp, src, page, size, now, net) ==
    IF Len(resp) = 0
    THEN [err |-> FALSE, ts |-> <<>>, next |-> "", ready |-> TRUE,
          responses |-> resp, ev |-> <<Event("nodata", 0)>>]
    ELSE IF BadDates(Head(resp)) \/ net = "enabledfail"
    THEN Failed(TRUE) @@ [responses |-> Tail(resp),
                          ev |-> <<Event("dequeue", Head(resp))>>]
    ELSE [err |-> FALSE,
          ts |-> MapSeq(LAMBDA d : BrowserTender(d, now), Head(resp)),
          next |-> IF HasMore(src, page, size) THEN "next" ELSE "",
          ready |-> TRUE,
          responses |-> Tail(resp),
          ev |-> <<Event("dequeue", Head(resp))>>]

\* Client.List putting the payload back when the call fails after taking it
BrowserDequeue_keepOnError(resp, src, page, size, now, net) ==
    IF Len(resp) = 0
    THEN Failed(TRUE) @@ [responses |-> resp, ev |-> <<Event("nodata", 0)>>]
    ELSE IF BadDates(Head(resp)) \/ net = "enabledfail"
    THEN Failed(TRUE) @@ [responses |-> resp,
                          ev |-> <<Event("dequeue", Head(resp))>>]
    ELSE [err |-> FALSE,
          ts |-> MapSeq(LAMBDA d : BrowserTender(d, now), Head(resp)),
          next |-> IF HasMore(src, page, size) THEN "next" ELSE "",
          ready |-> TRUE,
          responses |-> Tail(resp),
          ev |-> <<Event("dequeue", Head(resp))>>]

\* browser-session Client.List from responsesMu.Lock() to its return: an
\* empty queue is an error; otherwise the head is taken, and a record whose
\* dates do not parse, or a failing "next page enabled" check, fails the
\* call after that
BrowserDequeue(resp, src, page, size, now, net) ==
    IF Len(resp) = 0
    THEN Failed(TRUE) @@ [responses |-> resp, ev |-> <<Event("nodata", 0)>>]
    ELSE IF BadDates(Head(resp)) \/ net = "enabledfail"
    THEN Failed(TRUE) @@ [responses |-> Tail(resp),
                          ev |-> <<Event("dequeue", Head(resp))>>]
    ELSE [err |-> FALSE,
          ts |-> MapSeq(LAMBDA d : BrowserTender(d, now), Head(resp)),
          next |-> IF HasMore(src, page, size) THEN "next" ELSE "",
          ready |-> TRUE,
          responses |-> Tail(resp),
          ev |-> <<Event("dequeue", Head(resp))>>]

\* the rest of Client.List, which holds the lock until it returns
ListDequeue ==
    /\ pc = "locked"
    /\ \E net \in {"ok", "enabledfail"} :
         LET r == BrowserDequeue(responses, source, uiPage, pageSize, Now, net)
         IN  /\ responses' = r.responses
             /\ AfterList(token, r)
    /\ responsesMu' = Unlock(responsesMu)
    /\ UNCHANGED <<variant, pageSize, source, clock, tenders, ready, uiPage,
                   inflight, appending, max, start, nt, runs, added, exitAt,
                   begin, last>>
    /\ UNCHANGED <<vals, other>>

\* one iteration of "for _, t := range ct", and what follows it when it was
\* the last record of the page
AddRecord ==
    /\ pc = "records"
    /\ ct # <<>>
    /\ \E dbOK \in BOOLEAN :
         LET t == Head(ct)
             r == StoreAdd(variant, tenders, t, Now)
         IN  IF ~dbOK \/ r.err
             THEN /\ added' = Append(added, [t |-> t, isNew |-> FALSE, err |-> TRUE, db |-> dbOK])
                  /\ pc' = "done"
                  /\ ret' = ErrRet(nt)
                  /\ UNCHANGED <<tenders, nt, token, ct, nextToken, exitAt>>
             ELSE LET exit == EarlyExit(t, start)
                      to   == Control(exit, Tail(ct), nextToken)
                  IN  /\ tenders' = r.tenders
                      /\ nt' = Collect(nt, t, r.isNew)
                      /\ added' = Append(added, [t |-> t, isNew |-> r.isNew, err |-> FALSE, db |-> dbOK])
                      /\ exitAt' = IF exit /\ exitAt = <<0, 0>>
                                   THEN <<Len(added'), Len(calls)>> ELSE exitAt
                      /\ pc' = to
                      /\ ct' = IF to = "records" THEN Tail(ct) ELSE <<>>
                      /\ token' = IF to = "list" THEN nextToken ELSE token
                      /\ nextToken' = IF to = "records" THEN nextToken ELSE ""
                      /\ ret' = IF to = "done" THEN [nt |-> nt', err |-> FALSE] ELSE ret
    /\ UNCHANGED <<variant, pageSize, source, clock, ready, uiPage, inflight,
                   responses, max, start, runs, calls, begin, last, log>>
    /\ UNCHANGED <<responsesMu, appending, vals, other>>

\* main ends; the next invocation starts with a new Client on the same
\* table
ExitFrame ==
    /\ pc = "done"
    /\ pc' = "idle"
    /\ runs' = runs + 1
    /\ ready' = FALSE
    /\ vals' = NoVals
    /\ uiPage' = 0
    /\ inflight' = <<>>
    /\ responsesMu' = FALSE
    /\ appending' = <<>>
    /\ responses' = <<>>
    /\ max' = ZeroTime
    /\ start' = ZeroTime
    /\ nt' = <<>>
    /\ token' = ""
    /\ ct' = <<>>
    /\ nextToken' = ""
    /\ ret' = NoRet
    /\ calls' = <<>>
    /\ added' = <<>>
    /\ exitAt' = <<0, 0>>
    /\ begin' = [tenders |-> tenders, clock |-> clock]
    /\ log' = <<>>
    /\ UNCHANGED <<variant, pageSize, source, clock, tenders, other>>

Exit ==
    /\ ExitFrame
    /\ last' = [ran |-> TRUE, err |-> ret.err, same |-> TRUE,
                reported |-> last.reported]

Next ==
    \/ \E d \in Upstream : Publish(d)
    \/ Tick
    \/ FindNewStart
    \/ ListToken
    \/ ListForm
    \/ ListUI
    \/ HookLock
    \/ HookAppend
    \/ ListLock
    \/ ListDequeue
    \/ AddRecord
    \/ Exit

Spec == Init /\ [][Next]_vars

(***************************************************************************)
(* The capture queue on its own: a browser-session Client whose session is *)
(* up, under any sequence of matching responses and of List calls that     *)
(* get to the queue.                                                       *)
(***************************************************************************)
\* the payloads a response can carry: the pages of one record that a
\* tender can go through, one of which has a date that does not parse, and
\* the empty page
Payloads == {<<d>> : d \in {u \in Upstream : u.ID = "T1"}} \cup {<<>>}

\* the responses the hook can be called with
Responses ==
    {Response("search", "ok", p) : p \in Payloads}
    \cup {Response("search", "unreadable", <<>>),
          Response("search", "garbage", <<>>),
          Response("other", "ok", <<>>)}

\* the first List call of a run over an empty listing has brought the
\* session up and is at responsesMu.Lock()
QInit ==
    /\ variant = "browser"
    /\ pageSize = 1
    /\ source = <<>>
    /\ clock = 1
    /\ tenders = <<>>
    /\ ready = TRUE
    /\ vals = NoVals
    /\ other = NoOther
    /\ uiPage = 1
    /\ inflight = <<Response("search", "ok", PageOf(<<>>, 1, 1))>>
    /\ responsesMu = FALSE
    /\ appending = <<>>
    /\ responses = <<>>
    /\ pc = "dequeue"
    /\ max = ZeroTime
    /\ start = CutoffOf(ZeroTime, Nows[1])
    /\ nt = <<>>
    /\ token = ""
    /\ ct = <<>>
    /\ nextToken = ""
    /\ ret = NoRet
    /\ runs = 0
    /\ calls = <<>>
    /\ added = <<>>
    /\ exitAt = <<0, 0>>
    /\ begin = [tenders |-> <<>>, clock |-> 1]
    /\ last = [ran |-> FALSE, err |-> FALSE, same |-> FALSE, reported |-> {}]
    /\ log = <<Event("init", 0),
               Event("observe", Response("search", "ok", PageOf(<<>>, 1, 1)))>>

\* the browser reports a response to the hook, up to MaxPayloads - 1
\* responses
QObserve(r) ==
    /\ Len(SelectSeq(log, LAMBDA e : e.ev = "observe")) < MaxPayloads - 1
    /\ inflight' = Hook(inflight, r)
    /\ log' = Append(log, Event("observe", r))
    /\ UNCHANGED <<variant, pageSize, source, clock, tenders, ready, uiPage,
                   responsesMu, appending, responses, pc, max, start, nt, token,
                   ct, nextToken, ret, runs, calls, added, exitAt, begin, last>>
    /\ UNCHANGED <<vals, other>>

\* a List call that holds the lock returns; the caller comes back with its
\* next List call, up to MaxPayloads - 1 calls
QList ==
    /\ pc = "locked"
    /\ \E net \in {"ok", "enabledfail"} :
         LET r == BrowserDequeue(responses, source, uiPage, pageSize, Now, net)
         IN  /\ responses' = r.responses
             /\ log' = log \o r.ev
    /\ responsesMu' = Unlock(responsesMu)
    /\ pc' = IF Len(SelectSeq(log, LAMBDA e : e.ev = "lock")) < MaxPayloads - 1
             THEN "dequeue" ELSE "done"
    /\ UNCHANGED <<variant, pageSize, source, clock, tenders, ready, uiPage,
                   inflight, appending, max, start, nt, token, ct, nextToken,
                   ret, runs, calls, added, exitAt, begin, last>>
    /\ UNCHANGED <<vals, other>>

QNext ==
    \/ \E r \in Responses : QObserve(r)
    \/ HookDrop
    \/ HookLock
    \/ HookAppend
    \/ ListLock
    \/ QList

QueueSpec == QInit /\ [][QNext]_vars

\* the same, with the scheduling the program runs under: a List call that
\* holds the lock returns (the settle delay is fixed, the "next page enabled"
\* check has a timeout); a goroutine that holds the lock appends and
\* returns; a goroutine waiting in Lock gets the mutex once it is unlocked
\* often enough, sync.Mutex handing it to a waiter that starves
QueueFairSpec ==
    /\ QInit
    /\ [][QNext]_vars
    /\ WF_vars(QList)
    /\ WF_vars(HookAppend)
    /\ SF_vars(HookLock)

(***************************************************************************)
(* A Client of the token- or form-session kind on its own, under any       *)
(* sequence of List calls, whatever cursor the caller passes.              *)
(***************************************************************************)
\* a listing of three tenders
CSource ==
    <<CHOOSE u \in Upstream : u.Title = "a",
      CHOOSE u \in Upstream : u.Title = "b",
      CHOOSE u \in Upstream : u.Title = "c">>

\* the cursors a caller can pass: none, or a page number
Cursors == {""} \cup {ToString(n) : n \in 2..MaxCalls}

\* List of the Client of build var; "token1" is the earlier token-session
\* Client
ClientList(var, rdy, tok, src, size, net, v) ==
    IF var = "form" THEN FormList(rdy, tok, src, size, net, v)
    ELSE IF var = "token1" THEN TokenListV1(rdy, tok, src, size, net) @@ [vals |-> v]
    ELSE TokenList(rdy, tok, src, size, net) @@ [vals |-> v]

\* a new Client, before its first List call
CInit ==
    /\ variant \in {"token", "token1", "form"}
    /\ pageSize \in 1..MaxPageSize
    /\ source = CSource
    /\ clock = 1
    /\ tenders = <<>>
    /\ ready = FALSE
    /\ vals = NoVals
    /\ other = NoOther
    /\ uiPage = 0
    /\ inflight = <<>>
    /\ responsesMu = FALSE
    /\ appending = <<>>
    /\ responses = <<>>
    /\ pc = "idle"
    /\ max = ZeroTime
    /\ start = ZeroTime
    /\ nt = <<>>
    /\ token = ""
    /\ ct = <<>>
    /\ nextToken = ""
    /\ ret = NoRet
    /\ runs = 0
    /\ calls = <<>>
    /\ added = <<>>
    /\ exitAt = <<0, 0>>
    /\ begin = [tenders |-> <<>>, clock |-> 1]
    /\ last = [ran |-> FALSE, err |-> FALSE, same |-> FALSE, reported |-> {}]
    /\ log = <<>>

\* the caller calls List with cursor tok, up to MaxCalls times
CList(tok) ==
    /\ Len(calls) < MaxCalls
    /\ \E net \in IF variant = "form" THEN {"ok", "initfail", "fail"}
                  ELSE {"ok", "authfail", "fail"} :
         LET r == ClientList(variant, ready, tok, source, pageSize, net, vals)
         IN  /\ ready' = r.ready
             /\ vals' = r.vals
             /\ calls' = Append(calls, Call(tok, r))
             /\ log' = log \o r.ev
    /\ token' = tok
    /\ UNCHANGED <<variant, pageSize, source, clock, tenders, uiPage, inflight,
                   responsesMu, appending, responses, pc, max, start, nt, ct,
                   nextToken, ret, runs, added, exitAt, begin, last, other>>

CNext == \E tok \in Cursors : CList(tok)

ClientSpec == CInit /\ [][CNext]_vars

(***************************************************************************)
(* Two runs of the program on one store.  Both have found the table empty  *)
(* and fetched the same listing, all on one page, and range over it, their *)
(* store calls interleaved in any order.  The builds are the               *)
(* browser-session one (sqlite table) and the first one (a directory of    *)
(* marker files, no paging, no early exit).                                *)
(***************************************************************************)
\* the listings of one or two tenders whose dates parse
ShareSources ==
    LET valid == {u \in Upstream : ~BadDates(<<u>>)}
    IN  {<<u>> : u \in valid}
        \cup {l \in {<<u, w>> : u \in valid, w \in valid} : l[1].ID # l[2].ID}

\* what the client of build var makes of listing src
ShareListing(var, src) ==
    IF var = "file" THEN MapSeq(FormTender, src)
    ELSE MapSeq(LAMBDA d : BrowserTender(d, Nows[1]), src)

ShareInit ==
    /\ variant \in {"browser", "file"}
    /\ pageSize = MaxPageSize
    /\ source \in ShareSources
    /\ clock = 1
    /\ tenders = <<>>
    /\ ready = (variant = "browser")
    /\ vals = NoVals
    /\ other = [pc |-> "records", ct |-> ShareListing(variant, source),
                nt |-> <<>>, added |-> <<>>, ret |-> NoRet]
    /\ uiPage = IF variant = "browser" THEN 1 ELSE 0
    /\ inflight = <<>>
    /\ responsesMu = FALSE
    /\ appending = <<>>
    /\ responses = <<>>
    /\ pc = "records"
    /\ max = ZeroTime
    /\ start = IF variant = "browser" THEN CutoffOf(ZeroTime, Nows[1]) ELSE ZeroTime
    /\ nt = <<>>
    /\ token = ""
    /\ ct = ShareListing(variant, source)
    /\ nextToken = ""
    /\ ret = NoRet
    /\ runs = 0
    /\ calls = <<[token |-> "", next |-> "", err |-> FALSE, n |-> Len(source)]>>
    /\ added = <<>>
    /\ exitAt = <<0, 0>>
    /\ begin = [tenders |-> <<>>, clock |-> 1]
    /\ last = [ran |-> FALSE, err |-> FALSE, same |-> FALSE, reported |-> {}]
    /\ log = IF variant = "browser"
             THEN <<Event("init", 0),
                    Event("observe", Response("search", "ok", source)),
                    Event("append", source),
                    Event("lock", 0),
                    Event("dequeue", source)>>
             ELSE <<>>

\* one iteration of the range loop of the second run
OtherAdd ==
    /\ other.pc = "records"
    /\ other.ct # <<>>
    /\ \E dbOK \in BOOLEAN :
         LET t == Head(other.ct)
             r == StoreAdd(variant, tenders, t, Now)
         IN  IF ~dbOK \/ r.err
             THEN /\ other' = [other EXCEPT
                        !.added = Append(@, [t |-> t, isNew |-> FALSE,
                                             err |-> TRUE, db |-> dbOK]),
                        !.pc = "done",
                        !.ret = ErrRet(other.nt)]
                  /\ UNCHANGED tenders
             ELSE LET exit == EarlyExit(t, start)
                      to   == Control(exit, Tail(other.ct), "")
                      ntv  == Collect(other.nt, t, r.isNew)
                  IN  /\ tenders' = r.tenders
                      /\ other' = [other EXCEPT
                            !.added = Append(@, [t |-> t, isNew |-> r.isNew,
                                                 err |-> FALSE, db |-> dbOK]),
                            !.nt = ntv,
                            !.pc = to,
                            !.ct = IF to = "records" THEN Tail(@) ELSE <<>>,
                            !.ret = IF to = "done" THEN [nt |-> ntv, err |-> FALSE]
                                    ELSE @]
    /\ UNCHANGED <<variant, pageSize, source, clock, ready, uiPage, inflight,
                   responsesMu, appending, responses, pc, max, start, nt, token,
                   ct, nextToken, ret, runs, calls, added, exitAt, begin, last,
                   log, vals>>

ShareNext ==
    \/ AddRecord
    \/ OtherAdd

ShareSpec == ShareInit /\ [][ShareNext]_vars

(***************************************************************************)
(* The runs of the program one after the other, with the history of what   *)
(* they reported: the ids in the results of the runs that have ended.  The *)
(* source publishes and revises between runs; the clock stands still.      *)
(***************************************************************************)
\* main ends: the result of findNew, if it returned one, is printed or sent
ExitReport ==
    /\ ExitFrame
    /\ last' = [ran |-> TRUE, err |-> ret.err, same |-> TRUE,
                reported |-> last.reported
                             \cup {ret.nt[i].ID : i \in 1..Len(ret.nt)}]

LedgerNext ==
    \/ \E d \in Upstream : Publish(d)
    \/ FindNewStart
    \/ ListToken
    \/ ListForm
    \/ ListUI
    \/ HookLock
    \/ HookAppend
    \/ ListLock
    \/ ListDequeue
    \/ AddRecord
    \/ ExitReport

LedgerSpec == Init /\ [][LedgerNext]_vars

(***************************************************************************)
(* One discovery run on its own: findNew with a new Client, started on any *)
(* listing the source can hold and on a table that earlier runs left.  The  *)
(* builds are the two token-session ones, the form-session one and the     *)
(* browser-session one, whose source marks a missing date with the year    *)
(* 9999.  The wall clock moves on while the run is under way.              *)
(***************************************************************************)
\* records of the browser-session source with the placeholder year in both
\* dates, in the closing date alone, and in the issued date alone
Sentinels ==
    { Raw("T2", "b9", <<9999, 12, 31, 0>>, <<9999, 12, 31, 1>>),
      Raw("T3", "c9", <<2023, 2, 28, 0>>,  <<9999, 12, 31, 1>>),
      Raw("T1", "a9", <<9999, 12, 31, 0>>, <<2023, 2, 1, 1>>) }

\* what the source of build var can list
RunUpstream(var) == IF var = "browser" THEN Upstream \cup Sentinels ELSE Upstream

\* the listings of build var: at most MaxSource records, no id twice
RunSources(var) ==
    {l \in UNION {[1..n -> RunUpstream(var)] : n \in 0..MaxSource} :
        \A i \in 1..Len(l) : \A j \in (i + 1)..Len(l) : l[i].ID # l[j].ID}

\* what the client of build var makes of record d at time now
Convert(var, d, now) ==
    IF var = "browser" THEN BrowserTender(d, now)
    ELSE IF var = "form" THEN FormTender(d)
    ELSE TokenTender(d)

\* the tables an earlier run can have left: empty, or the row of one record
\* whose dates parse
RunTables(var) ==
    {<<>>} \cup {<<Row(Convert(var, u, Nows[1]), Nows[1])>> :
                    u \in {w \in Upstream : ~BadDates(<<w>>)}}

RunInit ==
    /\ variant \in {"token", "token1", "form", "browser"}
    /\ pageSize \in 1..MaxPageSize
    /\ source \in RunSources(variant)
    /\ clock = 1
    /\ tenders \in RunTables(variant)
    /\ ready = FALSE
    /\ vals = NoVals
    /\ other = NoOther
    /\ uiPage = 0
    /\ inflight = <<>>
    /\ responsesMu = FALSE
    /\ appending = <<>>
    /\ responses = <<>>
    /\ pc = "idle"
    /\ max = ZeroTime
    /\ start = ZeroTime
    /\ nt = <<>>
    /\ token = ""
    /\ ct = <<>>
    /\ nextToken = ""
    /\ ret = NoRet
    /\ runs = 0
    /\ calls = <<>>
    /\ added = <<>>
    /\ exitAt = <<0, 0>>
    /\ begin = [tenders |-> tenders, clock |-> 1]
    /\ last = [ran |-> FALSE, err |-> FALSE, same |-> FALSE, reported |-> {}]
    /\ log = <<>>

\* the earlier token-session build: one iteration's cl.List(ctx, token)
ListTokenV1 ==
    /\ pc = "list"
    /\ variant = "token1"
    /\ \E net \in {"ok", "authfail", "fail"} :
         LET r == TokenListV1(ready, token, source, pageSize, net)
         IN  /\ ready' = r.ready
             /\ AfterList(token, r)
    /\ UNCHANGED <<variant, pageSize, source, clock, tenders, uiPage, inflight,
                   responses, max, start, nt, runs, added, exitAt, begin, last>>
    /\ UNCHANGED <<responsesMu, appending, vals, other>>

\* time passes during the run: a later time.Now()
RunTick ==
    /\ clock < Len(Nows)
    /\ pc \in {"list", "dequeue", "locked", "records"}
    /\ clock' = clock + 1
    /\ UNCHANGED <<variant, pageSize, source, tenders, ready, uiPage, inflight,
                   responses, pc, max, start, nt, token, ct, nextToken, ret,
                   runs, calls, added, exitAt, begin, last, log>>
    /\ UNCHANGED <<responsesMu, appending, vals, other>>

\* the steps of the process: findNew, List, and the goroutines of the hook
RunStep ==
    \/ FindNewStart
    \/ ListToken
    \/ ListTokenV1
    \/ ListForm
    \/ ListUI
    \/ HookLock
    \/ HookAppend
    \/ ListLock
    \/ ListDequeue
    \/ AddRecord

RunNext == RunStep \/ RunTick

RunSpec == RunInit /\ [][RunNext]_vars

\* the Go scheduler runs every runnable goroutine: the process does not
\* stand still while findNew or a goroutine of the hook has a step to take
RunFairSpec == RunInit /\ [][RunNext]_vars /\ WF_vars(RunStep)

(***************************************************************************)
(* Properties.                                                             *)
(***************************************************************************)
Running == pc \in {"list", "dequeue", "locked", "records"}

Finished == pc = "done" /\ ~ret.err

Stored(tbl, id) == {k \in 1..Len(tbl) : tbl[k].id = id}

\* the records passed to add so far in this run
Passed == MapSeq(LAMBDA a : a.t, added)

\* what the client makes of the source's listing
Listing ==
    IF variant = "browser"
    THEN MapSeq(LAMBDA d : BrowserTender(d, Nows[begin.clock]), source)
    ELSE IF variant = "form" THEN MapSeq(FormTender, source)
    ELSE MapSeq(TokenTender, source)

\* C1: add is idempotent on id.  Unless the database itself fails, an add
\* returns no error, returns isNew = true exactly when no row with that id
\* was there (stored before the run, or inserted by an earlier add of the
\* run), and leaves exactly one row with that id.
C1_AddIdempotent ==
    \A i \in 1..Len(added) :
        LET a    == added[i]
            seen == \/ Stored(begin.tenders, a.t.ID) # {}
                    \/ \E j \in 1..(i - 1) :
                         added[j].t.ID = a.t.ID /\ ~added[j].err
        IN  a.db => /\ ~a.err
                    /\ a.isNew = ~seen
                    /\ Cardinality(Stored(tenders, a.t.ID)) = 1

\* a second add of an id with another description was a silent no-op
C1_Witness ==
    \E i \in 1..Len(added) :
        /\ ~added[i].err
        /\ ~added[i].isNew
        /\ \E k \in Stored(tenders, added[i].t.ID) :
             tenders[k].description # added[i].t.Description

\* C2: the table is append-only.  No step removes a row or changes a field
\* of an existing row: the table before a step is a prefix of the table
\* after it.
C2_AppendOnly ==
    [][/\ Len(tenders') >= Len(tenders)
       /\ \A k \in 1..Len(tenders) : tenders'[k] = tenders[k]]_vars

\* a run added a record whose id was stored with other dates, and the row
\* still has the dates of its first insert
C2_Witness ==
    /\ pc = "done"
    /\ \E i \in 1..Len(added) :
         /\ ~added[i].err
         /\ \E k \in Stored(begin.tenders, added[i].t.ID) :
              /\ begin.tenders[k].issued # Format(added[i].t.IssuedDate)
              /\ tenders[k] = begin.tenders[k]

\* C3: under the issued-date policy the watermark is the latest issued date
\* of the table, wherever its row stands, and the zero date on an empty table.
C3_MaxIssued ==
    (variant = "token" /\ Running) =>
        IF Len(begin.tenders) = 0
        THEN max = ZeroTime
        ELSE /\ \E k \in 1..Len(begin.tenders) :
                  Format(max) = begin.tenders[k].issued
             /\ max[4] = 0
             /\ \A k \in 1..Len(begin.tenders) :
                  LET d == begin.tenders[k].issued
                  IN  ~Before(max, <<d[1], d[2], d[3], 0>>)

\* three rows with three issued dates, the latest being the row inserted first
C3_Witness ==
    /\ variant = "token"
    /\ Running
    /\ Len(begin.tenders) = 3
    /\ Cardinality({begin.tenders[k].issued : k \in 1..3}) = 3
    /\ Format(max) = begin.tenders[1].issued

\* C4: a run that ends without error returns the records for which add
\* returned isNew = true, in the order of the listing; the records passed to
\* add are a prefix of the listing, the one that triggered the early exit
\* included.
C4_ResultIsNewInOrder ==
    /\ Len(Passed) <= Len(Listing)
    /\ \A i \in 1..Len(Passed) : Passed[i] = Listing[i]
    /\ Finished =>
         ret.nt = MapSeq(LAMBDA a : a.t, SelectSeq(added, LAMBDA a : a.isNew))

\* empty table, a single page of two records and an empty next cursor: both
\* are returned in listing order and both are stored
C4_Witness ==
    /\ Finished
    /\ Len(begin.tenders) = 0
    /\ Len(calls) = 1
    /\ calls[1].next = ""
    /\ Len(source) = 2
    /\ ret.nt = Listing
    /\ \A i \in 1..2 : Stored(tenders, source[i].ID) # {}

\* C5: early exit.  A record whose relevant date is strictly before the
\* cutoff is added and is the last record of the run passed to add: the run
\* is done, without error, and no List call follows.  No other record, one
\* dated exactly at the cutoff included, ends the run early.
C5_EarlyExit ==
    \A i \in 1..Len(added) :
        ~added[i].err =>
            IF Before(RelevantDate(added[i].t), start)
            THEN /\ i = Len(added)
                 /\ Finished
                 /\ exitAt = <<i, Len(calls)>>
                 /\ Stored(tenders, added[i].t.ID) # {}
            ELSE exitAt[1] # i

\* the run ended at the first record of a page of two; the second one was
\* never passed to add and is not stored
C5_Witness ==
    /\ Finished
    /\ pageSize = 2
    /\ exitAt[1] = 1
    /\ Len(added) = 1
    /\ Len(source) >= 2
    /\ Stored(tenders, source[2].ID) = {}

\* a record dated exactly at the cutoff was added and the run went on
C5_WitnessEqual ==
    \E i \in 1..Len(added) :
        /\ RelevantDate(added[i].t) = start
        /\ i < Len(added)

\* the run got past the watermark query
Started == pc # "idle" /\ ~(pc = "done" /\ calls = <<>>)

\* three pages of records in strictly decreasing issued-date order, and a
\* cutoff after which lie the dates of pages 1 and 2 and before which lie
\* the dates of page 3
C6_Scenario ==
    /\ variant = "token"
    /\ Started
    /\ Len(source) > 2 * pageSize
    /\ Len(source) <= 3 * pageSize
    /\ \A i \in 1..Len(source) : \A j \in (i + 1)..Len(source) :
         Before(Listing[j].IssuedDate, Listing[i].IssuedDate)
    /\ \A i \in 1..Len(source) :
         IF i <= 2 * pageSize
         THEN Before(start, Listing[i].IssuedDate)
         ELSE Before(Listing[i].IssuedDate, start)

\* C6 as stated: with the cutoff between the dates of page 2 and those of
\* page 3, the driver stops during page 2 and never requests page 3.
C6_StopsDuringPage2 ==
    C6_Scenario =>
        /\ \A i \in 1..Len(calls) : calls[i].token # ToString(3)
        /\ Finished => exitAt[2] = 2

\* C6 as the driver behaves: with the cutoff between the dates of page 2 and
\* those of page 3, no record of page 2 is before the cutoff, so the driver
\* requests page 3 and stops at its first record, which is still added; no
\* further record is added and no fourth List call is made.
C6_StopsAtPage3 ==
    C6_Scenario =>
        /\ Len(calls) <= 3
        /\ Len(added) <= 2 * pageSize + 1
        /\ Finished => /\ exitAt = <<2 * pageSize + 1, 3>>
                       /\ Len(added) = 2 * pageSize + 1
                       /\ calls[3].token = ToString(3)

C6_Witness ==
    /\ C6_Scenario
    /\ Finished
    /\ exitAt[2] = 3

\* C7: cursor termination.  The first List call gets the empty cursor; a
\* further call is made only after a call that returned no error and a
\* non-empty next cursor, which it is passed unchanged, and never after the
\* early exit; after a first call that returns an empty next cursor the run
\* ends with that single call.
C7_CursorTermination ==
    /\ calls # <<>> => calls[1].token = ""
    /\ \A i \in 1..(Len(calls) - 1) :
         /\ ~calls[i].err
         /\ calls[i].next # ""
         /\ calls[i + 1].token = calls[i].next
    /\ exitAt # <<0, 0>> => Len(calls) = exitAt[2] /\ pc = "done"
    /\ (calls # <<>> /\ calls[Len(calls)].next = "" /\ pc \in {"list", "dequeue", "locked"}) => FALSE
    /\ (Finished /\ calls[1].next = "") =>
         /\ Len(calls) = 1
         /\ exitAt = <<0, 0>> => Len(added) = calls[1].n

\* a first call returned records and an empty next cursor; the run ended
\* after this one call
C7_Witness ==
    /\ Finished
    /\ Len(calls) = 1
    /\ calls[1].next = ""
    /\ calls[1].n = 1
    /\ exitAt = <<0, 0>>

\* C8: re-run.  When the previous run ended without error and the source has
\* published nothing since, a run that ends without error returns nothing
\* and leaves the table as it found it.
C8_RerunEmpty ==
    (Finished /\ last.ran /\ ~last.err /\ last.same) =>
        /\ ret.nt = <<>>
        /\ tenders = begin.tenders

\* C9: issued-date policy on an empty table.  start is the zero date, no
\* record takes the early exit, and a run that ends without error has passed
\* every record of the listing to add and has ended on an empty next cursor.
C9_EmptyStoreAllPages ==
    (variant = "token" /\ Started /\ Len(begin.tenders) = 0) =>
        /\ IsZero(start)
        /\ exitAt = <<0, 0>>
        /\ Finished => /\ Passed = Listing
                       /\ calls[Len(calls)].next = ""

C9_Witness ==
    /\ variant = "token"
    /\ Finished
    /\ Len(begin.tenders) = 0
    /\ Len(added) = 3
    /\ Len(calls) = 4

\* C10 as stated: first-observed policy on an empty table, the cutoff is the
\* current time.
C10_CutoffIsNow ==
    (variant = "browser" /\ Started /\ Len(begin.tenders) = 0) =>
        start = Nows[begin.clock]

\* C10 as the driver behaves: on an empty table the watermark collapses to
\* the current time and the cutoff is 4 months before it; a record ends the
\* run early exactly when its close date is strictly before that cutoff.
C10_CutoffIsNowMinus4 ==
    (variant = "browser" /\ Started /\ Len(begin.tenders) = 0) =>
        /\ start = AddDate(Nows[begin.clock], 4)
        /\ Before(start, Nows[begin.clock])
        /\ \A i \in 1..Len(added) :
             ~added[i].err =>
                 (exitAt[1] = i <=>
                    Before(added[i].t.CloseDate, AddDate(Nows[begin.clock], 4)))

\* a record closing before the current time did not end the run
C10_Witness ==
    /\ variant = "browser"
    /\ Len(begin.tenders) = 0
    /\ \E i \in 1..Len(added) :
         /\ i < Len(added)
         /\ Before(added[i].t.CloseDate, Nows[begin.clock])

\* the greatest first_observed of a table, as a time
Observed(tbl) ==
    LET w == MaxText({tbl[k].first_observed : k \in 1..Len(tbl)})
    IN  <<w[1], w[2], w[3], w[4]>>

\* C11: first-observed policy on a non-empty table.  The watermark is the
\* greatest first_observed timestamp of the table and the cutoff is that
\* watermark moved back 4 months: it comes from the table and not from the
\* clock of the run.
C11_CutoffFromLedger ==
    (variant = "browser" /\ Started /\ Len(begin.tenders) > 0) =>
        /\ max = Observed(begin.tenders)
        /\ start = AddDate(Observed(begin.tenders), 4)

\* C12: the date compared with the cutoff depends on the policy.  A record
\* ends the run early exactly when, under the first-observed policy, its
\* close date is strictly before the cutoff, whatever its issued date, and,
\* under the issued-date policy, its issued date is strictly before the
\* cutoff, whatever its close date.
C12_RelevantDate ==
    \A i \in 1..Len(added) :
        ~added[i].err =>
            (exitAt[1] = i <=>
                IF variant = "browser"
                THEN Before(added[i].t.CloseDate, start)
                ELSE Before(added[i].t.IssuedDate, start))

\* first-observed policy: a record issued before the cutoff and closing at
\* or after it was added and the run went on
C12_Witness ==
    /\ variant = "browser"
    /\ \E i \in 1..Len(added) :
         /\ i < Len(added)
         /\ Before(added[i].t.IssuedDate, start)
         /\ ~Before(added[i].t.CloseDate, start)

\* issued-date policy: a record closing before the cutoff and issued at or
\* after it was added and the run went on
C12_WitnessIssued ==
    /\ variant # "browser"
    /\ \E i \in 1..Len(added) :
         /\ i < Len(added)
         /\ Before(added[i].t.CloseDate, start)
         /\ ~Before(added[i].t.IssuedDate, start)

\* C13: issued-date policy on a non-empty table.  The cutoff is the watermark
\* moved back one calendar month: it lies in the month before the
\* watermark's, on the watermark's day or, when that month is shorter, on an
\* earlier one; it is strictly earlier than the watermark; a record ends
\* the run early exactly when its issued date is strictly earlier than it.
C13_OneMonthBack ==
    (variant # "browser" /\ Started /\ Len(begin.tenders) > 0) =>
        /\ start[1] * 12 + start[2] = max[1] * 12 + max[2] - 1
        /\ start[3] <= max[3]
        /\ Before(start, max)
        /\ \A i \in 1..Len(added) :
             ~added[i].err =>
                 (exitAt[1] = i <=> Before(added[i].t.IssuedDate, start))

\* the number of session handshakes this run's Client has completed
Inits == Cardinality({i \in 1..Len(log) : log[i].ev = "init"})

InitFailed == \E i \in 1..Len(log) : log[i].ev = "initfail"

RECURSIVE Returned(_)
\* the number of records the first k List calls returned
Returned(k) == IF k = 0 THEN 0 ELSE Returned(k - 1) + calls[k].n

\* a List call that returns an error returns no records and an empty cursor,
\* is the last List call of the run, and no add call follows it
NoRetry ==
    \A k \in 1..Len(calls) :
        calls[k].err =>
            /\ calls[k].n = 0
            /\ calls[k].next = ""
            /\ k = Len(calls)
            /\ Len(added) = Returned(k - 1)
            /\ pc = "done"
            /\ ret.err

\* C16 as stated: no retry after an error, and in every build each cursor
\* value is passed to List at most once per run.
C16_NoRetry ==
    /\ NoRetry
    /\ \A j, k \in 1..Len(calls) : j < k => calls[j].token # calls[k].token

\* C16 as the clients behave: no retry after an error; the token- and
\* form-session builds pass each cursor value at most once per run; the
\* browser-session build passes the one cursor "next" for every page after
\* the first, each such call clicking on to the page after the one shown.
C16_NoRetryNumbered ==
    /\ NoRetry
    /\ variant # "browser" =>
         \A j, k \in 1..Len(calls) : j < k => calls[j].token # calls[k].token
    /\ variant = "browser" =>
         /\ \A k \in 2..Len(calls) : calls[k].token = "next"
         /\ \A i, j \in 1..Len(log) :
              (i < j /\ log[i].ev = "click" /\ log[j].ev = "click") =>
                  log[i].page < log[j].page

\* the third List call of a browser-session run failed: it was passed the
\* cursor the second one was passed, and the records of two pages were added
C16_Witness ==
    /\ variant = "browser"
    /\ Len(calls) = 3
    /\ calls[3].err
    /\ calls[2].token = calls[3].token
    /\ Len(added) = 2
    /\ pc = "done"

\* C17: no partial result.  A run that ends with an error returns an empty
\* result, whatever it had collected; every record whose add succeeded is
\* in the table, which is the table the run found followed by one row for
\* each record that was new.
C17_NoPartialResult ==
    (pc = "done" /\ ret.err) =>
        /\ ret.nt = <<>>
        /\ \A i \in 1..Len(added) :
             ~added[i].err => Stored(tenders, added[i].t.ID) # {}
        /\ Len(tenders) = Len(begin.tenders)
             + Len(SelectSeq(added, LAMBDA a : a.isNew))
        /\ \A k \in 1..Len(begin.tenders) : tenders[k] = begin.tenders[k]

\* the List call for a later page failed after new records were collected
\* and stored
C17_Witness ==
    /\ pc = "done"
    /\ ret.err
    /\ Len(calls) >= 2
    /\ calls[Len(calls)].err
    /\ nt # <<>>
    /\ Len(tenders) > Len(begin.tenders)

\* an add failed after new records were collected and stored
C17_WitnessAdd ==
    /\ pc = "done"
    /\ ret.err
    /\ added # <<>>
    /\ added[Len(added)].err
    /\ nt # <<>>
    /\ Len(tenders) > Len(begin.tenders)

\* C18: a record with an invalid date is never stored.  No record passed to
\* add and no row of the table has a date that is not a calendar date; a
\* List call for a page that holds such a record returns an error and no
\* records, so that no record of that page reaches add and the run ends
\* with the error; a List call that returns no error returns every record
\* of its page.
C18_BadDateFailsPage ==
    /\ \A i \in 1..Len(added) :
         ValidDate(added[i].t.IssuedDate) /\ ValidDate(added[i].t.CloseDate)
    /\ \A k \in 1..Len(tenders) :
         ValidDate(tenders[k].issued) /\ ValidDate(tenders[k].close)
    /\ \A k \in 1..Len(calls) :
         LET raws == PageOf(source, k, pageSize)
         IN  /\ BadDates(raws) =>
                  /\ calls[k].err /\ calls[k].n = 0 /\ calls[k].next = ""
                  /\ Len(added) <= (k - 1) * pageSize
                  /\ pc = "done" /\ ret.err
             /\ ~calls[k].err => calls[k].n = Len(raws)

\* a page listed a valid record, not in the table, ahead of one with an
\* invalid close date: the call failed and the valid record is not stored
C18_Witness ==
    /\ pc = "done"
    /\ ret.err
    /\ pageSize = 2
    /\ calls # <<>>
    /\ LET raws == PageOf(source, Len(calls), pageSize)
       IN  /\ Len(raws) = 2
           /\ ~BadDates(<<raws[1]>>)
           /\ BadDates(<<raws[2]>>)
           /\ Stored(tenders, raws[1].ID) = {}
           /\ Stored(tenders, raws[2].ID) = {}

\* the payloads the hook appended, and those List took, in order
Appended == MapSeq(LAMBDA e : e.page, SelectSeq(log, LAMBDA e : e.ev = "append"))

Dequeued == MapSeq(LAMBDA e : e.page, SelectSeq(log, LAMBDA e : e.ev = "dequeue"))

\* C19: the capture queue is first in, first out.  Under any interleaving
\* of appends and List calls, the payloads taken so far, followed by those
\* still queued, are the payloads appended so far, in the order of their
\* appends: each one is taken once, none is passed over.
C19_QueueFIFO == Dequeued \o responses = Appended

\* two different payloads were queued together, and two List calls then
\* took them in the order of their appends
C19_Witness ==
    LET q == SelectSeq(log, LAMBDA e : e.ev \in {"append", "dequeue", "nodata"})
    IN  \E i \in 1..(Len(q) - 3) :
            /\ q[i].ev = "append" /\ q[i + 1].ev = "append"
            /\ q[i].page # q[i + 1].page
            /\ q[i + 2] = Event("dequeue", q[i].page)
            /\ q[i + 3] = Event("dequeue", q[i + 1].page)

\* C20: the browser-session List does not wait for a payload.  A List call
\* that finds the queue empty when it has the lock, a payload being on its
\* way or not, returns an error, no records and an empty cursor, and the
\* run ends with that error and an empty result after no further add; the
\* call can always take that step, it has nothing to wait for.
C20_EmptyQueueFails ==
    [][/\ (pc = "locked" /\ responses = <<>>) => ENABLED ListDequeue
       /\ (pc = "locked" /\ responses = <<>> /\ pc' # "locked") =>
          /\ pc' = "done"
          /\ ret' = [nt |-> <<>>, err |-> TRUE]
          /\ calls' = Append(calls, [token |-> token, next |-> "",
                                     err |-> TRUE, n |-> 0])
          /\ log' = Append(log, Event("nodata", 0))
          /\ responses' = <<>>
          /\ inflight' = inflight
          /\ added' = added
          /\ tenders' = tenders]_vars

\* a run ended on the empty queue while the payload of its page was on its
\* way to it
C20_Witness ==
    /\ pc = "done"
    /\ ret.err
    /\ log # <<>>
    /\ log[Len(log)].ev = "nodata"
    /\ inflight # <<>>
    /\ inflight[1].data # <<>>

\* the number of pages of the listing that hold records
NumPages == (Len(source) + pageSize - 1) \div pageSize

\* C21 as stated: in every build List returns an empty next cursor exactly
\* when the page it returned is the last page of the listing, and the driver
\* requests no page beyond the last one that holds records.
C21_EmptyIffLast ==
    \A k \in 1..Len(calls) :
        ~calls[k].err =>
            /\ calls[k].next = "" <=> k * pageSize >= Len(source)
            /\ k = 1 \/ k <= NumPages

\* C21 as the clients behave: a List call that returns no error returns the
\* records of its page; the browser-session client returns an empty cursor
\* exactly on the last page; the token-session client exactly on a page
\* without records, the form-session client exactly on a page shorter than
\* the page size; so a run requests at most one page beyond the last one
\* that holds records, and a token-session run that is not cut short always
\* does.
C21_EmptyCursor ==
    /\ \A k \in 1..Len(calls) :
         /\ k <= NumPages + 1
         /\ ~calls[k].err =>
              /\ calls[k].n = Len(PageOf(source, k, pageSize))
              /\ variant = "browser" =>
                   (calls[k].next = "" <=> k * pageSize >= Len(source))
              /\ variant = "token" => (calls[k].next = "" <=> calls[k].n = 0)
              /\ variant = "form" => (calls[k].next = "" <=> calls[k].n < pageSize)
    /\ (variant = "token" /\ Finished /\ exitAt = <<0, 0>>) =>
         Len(calls) = NumPages + 1

\* a token-session run over two pages of records made a third List call,
\* which returned no records
C21_Witness ==
    /\ variant = "token"
    /\ Finished
    /\ NumPages = 2
    /\ Len(calls) = 3
    /\ calls[2].n > 0 /\ calls[2].next = ToString(3)
    /\ calls[3].n = 0 /\ calls[3].next = ""

\* the pages List asked the source for, in order
Requested ==
    MapSeq(LAMBDA e : e.page, SelectSeq(log, LAMBDA e : e.ev = "request"))

\* C30: in a token- or form-session run the pages requested are 1, 2, 3, ...
\* without a gap or a repeat, one by each List call that gets to its
\* request; the first call has the empty cursor and requests page 1; a
\* non-empty cursor returned for page n is the decimal text of n + 1; the
\* next call is passed that very cursor.
C30_ConsecutivePages ==
    variant # "browser" =>
        /\ \A i \in 1..Len(Requested) : Requested[i] = i
        /\ Len(Requested) <= Len(calls)
        /\ Len(calls) <= Len(Requested) + 1
        /\ \A k \in 1..Len(calls) :
             /\ k = 1 => calls[k].token = ""
             /\ calls[k].next # "" => calls[k].next = ToString(k + 1)
             /\ k > 1 => calls[k].token = calls[k - 1].next

\* a run requested pages 1, 2 and 3
C30_Witness ==
    /\ variant # "browser"
    /\ Requested = <<1, 2, 3>>
    /\ Len(calls) = 3
    /\ calls[3].token = ToString(3)

\* the payloads of the responses the hook saw that are of the search
\* endpoint and can be read and parsed, in the order the hook saw them
ObservedData ==
    MapSeq(LAMBDA e : e.page.data,
           SelectSeq(log, LAMBDA e : /\ e.ev = "observe"
                                     /\ e.page.url = "search"
                                     /\ Parseable(e.page)))

\* C23 as stated: payloads enter the capture queue in the order in which the
\* hook saw their responses, so the k-th payload to enter the queue, and
\* with it the k-th payload a List call takes, is that of the k-th matching
\* response.
C23_ObservationOrder ==
    /\ Len(Appended) <= Len(ObservedData)
    /\ \A k \in 1..Len(Appended) : Appended[k] = ObservedData[k]
    /\ \A k \in 1..Len(Dequeued) : Dequeued[k] = ObservedData[k]

\* C24: mutual exclusion on the capture queue.  A List call that is past
\* responsesMu.Lock() and a hook goroutine that is past it hold the mutex,
\* never both at a time and never two goroutines; the mutex is held by
\* nobody else; and the queue changes only in a step of the one that holds
\* it.
C24_MutualExclusion ==
    /\ [](/\ pc = "locked" => (responsesMu /\ appending = <<>>)
          /\ appending # <<>> => (responsesMu /\ Len(appending) = 1)
          /\ responsesMu => (pc = "locked" \/ appending # <<>>))
    /\ [][(responses' # responses /\ pc # "done") =>
            /\ responsesMu
            /\ \/ pc = "locked" /\ appending = <<>> /\ pc' # "locked"
               \/ pc # "locked" /\ Len(appending) = 1 /\ appending' = <<>>]_vars

\* a List call is at responsesMu.Lock() while a hook goroutine holds the
\* mutex
C24_Witness ==
    /\ pc = "dequeue"
    /\ responsesMu
    /\ Len(appending) = 1

Count(seq, x) == Cardinality({i \in 1..Len(seq) : seq[i] = x})

\* C25: the hook changes the queue only for parseable data responses.  The
\* hook called with a response of another URL starts nothing; the goroutine
\* of a response whose body cannot be read or parsed ends without touching
\* the queue; neither changes what List or the driver see.  A step that
\* changes the queue outside List appends one payload, that of a matching,
\* parseable response.  Every such response is appended once: the payloads
\* appended and those on their way are the payloads of the matching,
\* parseable responses seen.
C25_HookFrame ==
    /\ [](\A p \in Payloads :
            Count(Appended, p) + Count(appending, p)
            + Count(MapSeq(LAMBDA r : r.data, SelectSeq(inflight, Parseable)), p)
            = Count(ObservedData, p))
    /\ [][/\ \A r \in Responses :
               log' = Append(log, Event("observe", r)) =>
                   /\ inflight' = IF r.url = "search" THEN Append(inflight, r)
                                  ELSE inflight
                   /\ UNCHANGED <<responses, appending, responsesMu, pc, calls, ret>>
          /\ \A r \in Responses :
               log' = Append(log, Event("drop", r)) =>
                   /\ r.url = "search" /\ ~Parseable(r)
                   /\ Len(inflight') = Len(inflight) - 1
                   /\ UNCHANGED <<responses, appending, responsesMu, pc, calls, ret>>
          /\ Len(responses') > Len(responses) =>
               /\ Len(appending) = 1
               /\ responses' = Append(responses, appending[1])
               /\ appending[1] \in Payloads]_vars

\* a response of the search endpoint that is not the JSON of a page was
\* dropped, and the payload of the page was appended
C25_Witness ==
    /\ \E i \in 1..Len(log) : log[i] = Event("drop", Response("search", "garbage", <<>>))
    /\ Len(ObservedData) = 1
    /\ Appended = ObservedData
    /\ responses = Appended

\* C26: every matching, parseable response is appended in the end.  The
\* n-th such response seen is followed by an n-th append, whatever List
\* calls hold the lock in between.
C26_EventuallyAppended ==
    \A n \in 1..MaxPayloads :
        (Len(ObservedData) >= n) ~> (Len(Appended) >= n)

\* a response was seen while a List call held the lock; the call returned,
\* and the payload was appended after that
C26_Witness ==
    \E i \in 1..(Len(log) - 3) :
        /\ log[i].ev = "lock"
        /\ log[i + 1].ev = "observe"
        /\ log[i + 1].page.url = "search"
        /\ Parseable(log[i + 1].page)
        /\ log[i + 1].page.data # <<>>
        /\ log[i + 2].ev \in {"dequeue", "nodata"}
        /\ log[i + 3] = Event("append", log[i + 1].page.data)

\* the "next page" clicks of this run's Client
Clicks == SelectSeq(log, LAMBDA e : e.ev = "click")

\* C27: a browser-session List call that gets to the queue and finds it
\* non-empty leaves its tail, whether the call then returns records or an
\* error; one that finds it empty, and one that fails before (session
\* bootstrap, click, table wait), leaves the queue as it was.  A List call
\* clicks "next page" once when its cursor is non-empty and not at all when
\* it is empty.
C27_DequeueFrame ==
    [][variant = "browser" =>
         /\ (pc = "locked" /\ pc' # "locked") =>
              /\ Len(calls') = Len(calls) + 1
              /\ responses' = IF responses = <<>> THEN <<>> ELSE Tail(responses)
         /\ (pc = "list" /\ pc' # "list") =>
              /\ responses' = responses
              /\ Len(Clicks') = Len(Clicks) + (IF token # "" THEN 1 ELSE 0)
         /\ (pc # "list" /\ pc # "done") => Clicks' = Clicks]_vars

\* the second List call of a run clicked, took the payload of its page and
\* failed on a date in it
C27_Witness ==
    /\ variant = "browser"
    /\ Len(calls) = 2
    /\ calls[2].token = "next" /\ calls[2].err
    /\ Len(Clicks) = 1
    /\ Len(Dequeued) = 2
    /\ BadDates(Dequeued[2])
    /\ responses = <<>>

\* the form posts of this run's Client, in order
Posts == MapSeq(LAMBDA e : e.page, SelectSeq(log, LAMBDA e : e.ev = "post"))

\* the response the stored hidden fields should be from: the last POST that
\* was answered with status 200 and a document, the initial GET before any
LastAnswered ==
    LET ok == SelectSeq(Posts, LAMBDA q : q.ok)
    IN  IF ok = <<>> THEN 0 ELSE ok[Len(ok)].page

\* C29: form-session replay.  In every run the n-th request is for page n
\* and carries the hidden fields of the response before it: those of the
\* initial GET for page 1, those of the response for page n - 1 after that;
\* with them go the filter fields, and the filter button and no page target
\* on page 1, the page target Page$n and no filter button on a later page.
\* The stored hidden fields are those of the last request that was answered
\* with status 200 and a document, whether its rows parsed or not; a
\* request answered otherwise leaves the hidden fields that were sent.
C29_HiddenReplay ==
    (variant = "form" /\ ready) =>
        /\ \A n \in 1..Len(Posts) :
             /\ Posts[n].page = n
             /\ Posts[n].sent.from = n - 1
             /\ Posts[n].sent.filter
             /\ n = 1 => (Posts[n].sent.button /\ Posts[n].sent.target = 0)
             /\ n > 1 => (~Posts[n].sent.button /\ Posts[n].sent.target = n)
             /\ n < Len(Posts) => Posts[n].ok
        /\ vals.from = LastAnswered
        /\ (Posts # <<>> /\ Posts[Len(Posts)].ok) => vals = Captured(Len(Posts))

\* the third request of a run carried the hidden fields of the second
\* response and the page target, and was answered
C29_Witness ==
    /\ variant = "form"
    /\ Len(Posts) = 3
    /\ Posts[3].sent = [from |-> 2, filter |-> TRUE, button |-> FALSE, target |-> 3]
    /\ Posts[3].ok
    /\ vals = Captured(3)

\* C28 as stated: a Client that has no session yet rejects a List call with
\* a non-empty cursor: the call returns an error, no records and an empty
\* cursor, does no handshake and requests no page, and leaves the Client
\* not ready; a Client that is not ready can always be called with the
\* empty cursor and serve page 1.
C28_RejectsCursor ==
    [][/\ (Len(calls') = Len(calls) + 1 /\ ~ready /\ token' # "") =>
            /\ calls'[Len(calls')] =
                   [token |-> token', next |-> "", err |-> TRUE, n |-> 0]
            /\ log' = log
            /\ ~ready'
       /\ (~ready /\ Len(calls) < MaxCalls) =>
            ENABLED (CList("") /\ ready' /\ ~calls'[Len(calls')].err)]_vars

\* C28 as the clients behave: the form-session Client and the earlier
\* token-session Client reject the call as stated.  The later token-session
\* Client does not: it starts with the handshake, and when that succeeds it
\* is ready and requests the page the cursor names.  In each of them a
\* Client that is not ready can be called with the empty cursor and serve
\* page 1.
C28_FormRejectsCursor ==
    [][/\ (Len(calls') = Len(calls) + 1 /\ ~ready /\ token' # "") =>
            IF variant \in {"form", "token1"}
            THEN /\ calls'[Len(calls')] =
                        [token |-> token', next |-> "", err |-> TRUE, n |-> 0]
                 /\ log' = log
                 /\ ~ready'
            ELSE \/ /\ log' = Append(log, Event("initfail", 0))
                    /\ ~ready'
                    /\ calls'[Len(calls')].err
                 \/ /\ log' = log \o <<Event("init", 0),
                                       Event("request", Atoi(token'))>>
                    /\ ready'
                    /\ ~calls'[Len(calls')].err =>
                         calls'[Len(calls')].n =
                             Len(PageOf(source, Atoi(token'), pageSize))
       /\ (~ready /\ Len(calls) < MaxCalls) =>
            ENABLED (CList("") /\ ready' /\ ~calls'[Len(calls')].err)]_vars

\* a new form-session Client rejected the cursor "2", and the next call,
\* with the empty cursor, ran the handshake and returned page 1
C28_Witness ==
    /\ variant = "form"
    /\ Len(calls) = 2
    /\ calls[1] = [token |-> ToString(2), next |-> "", err |-> TRUE, n |-> 0]
    /\ calls[2].token = "" /\ ~calls[2].err /\ calls[2].n > 0
    /\ ready
    /\ Requested = <<1>>

\* the store calls among adds that were made for id and returned no error,
\* and those of them that returned isNew
CalledOK(adds, id) == {i \in 1..Len(adds) : adds[i].t.ID = id /\ ~adds[i].err}

NewIn(adds, id) == {i \in CalledOK(adds, id) : adds[i].isNew}

HasID(ts, id) == \E i \in 1..Len(ts) : ts[i].ID = id

\* C22: new-detection is race-free on a shared store.  Two runs find the
\* table empty and range over the same listing, their store calls
\* interleaved in any order.  For every id: a store call fails only when
\* the store does, never on the conflict; among the calls both runs made
\* for the id exactly one returned isNew, and one row is stored; when both
\* runs end without error, the record is in the result of exactly one.
C22_OneWinner ==
    /\ \A i \in 1..Len(added) : added[i].err => ~added[i].db
    /\ \A i \in 1..Len(other.added) : other.added[i].err => ~other.added[i].db
    /\ \A id \in {u.ID : u \in Upstream} :
         LET called == CalledOK(added, id) \cup CalledOK(other.added, id)
         IN  /\ Cardinality(Stored(tenders, id)) = (IF called = {} THEN 0 ELSE 1)
             /\ Cardinality(NewIn(added, id)) + Cardinality(NewIn(other.added, id))
                = (IF called = {} THEN 0 ELSE 1)
             /\ (called # {} /\ pc = "done" /\ ~ret.err
                 /\ other.pc = "done" /\ ~other.ret.err) =>
                  (HasID(ret.nt, id) <=> ~HasID(other.ret.nt, id))

\* both runs passed both records of the listing to the store and ended
\* without error; each has one of the two in its result
C22_Witness ==
    /\ pc = "done" /\ ~ret.err
    /\ other.pc = "done" /\ ~other.ret.err
    /\ Len(added) = 2 /\ Len(other.added) = 2
    /\ Len(ret.nt) = 1 /\ Len(other.ret.nt) = 1
    /\ Len(tenders) = 2

\* the positions of the listing after that of the record at which the run
\* took the early exit
AfterExit ==
    IF exitAt = <<0, 0>> THEN {} ELSE (exitAt[1] + 1)..Len(Listing)

\* C31: a source that does not list by date.  When the run takes the early
\* exit at a record, that record is dated before the cutoff and was passed
\* to add; the run is over without error and no add or List call follows;
\* a record the source lists after it, on the same page or on a later one,
\* that was not stored before the run is not passed to add, is not stored
\* and is not in the result, however new it is.
C31_StopsAtOldRecord ==
    exitAt # <<0, 0>> =>
        /\ Finished
        /\ Len(added) = exitAt[1]
        /\ Len(calls) = exitAt[2]
        /\ added[exitAt[1]].t = Listing[exitAt[1]]
        /\ Before(RelevantDate(Listing[exitAt[1]]), start)
        /\ \A j \in AfterExit :
             Stored(begin.tenders, Listing[j].ID) = {} =>
                 /\ CalledOK(added, Listing[j].ID) = {}
                 /\ Stored(tenders, Listing[j].ID) = {}
                 /\ ~HasID(ret.nt, Listing[j].ID)

\* the run stopped at a record before the cutoff; a record listed after it
\* is dated after the cutoff, was not stored before the run and is not
\* stored after it
C31_Witness ==
    /\ Finished
    /\ exitAt # <<0, 0>>
    /\ \E j \in AfterExit :
         /\ Before(start, RelevantDate(Listing[j]))
         /\ Stored(begin.tenders, Listing[j].ID) = {}
         /\ Stored(tenders, Listing[j].ID) = {}

\* the same with the newer record on a later page than the one the run
\* stopped on
C31_WitnessLaterPage ==
    /\ Finished
    /\ exitAt # <<0, 0>>
    /\ \E j \in AfterExit :
         /\ j > exitAt[2] * pageSize
         /\ Before(start, RelevantDate(Listing[j]))
         /\ Stored(tenders, Listing[j].ID) = {}

\* the client lists the records in non-increasing order of the date findNew
\* compares
Ordered ==
    \A i \in 1..Len(Listing) : \A j \in (i + 1)..Len(Listing) :
        ~Before(RelevantDate(Listing[i]), RelevantDate(Listing[j]))

\* the positions of the listing whose record is dated at or after the cutoff
AtOrAfterCutoff ==
    {j \in 1..Len(Listing) : ~Before(RelevantDate(Listing[j]), start)}

\* C32: completeness of a run over an ordered listing.  When the client
\* lists the records in non-increasing order of the relevant date and the
\* run ends without error, every record of the source dated at or after the
\* cutoff is stored, and every such record that was not stored before the
\* run is in the result of the run.
C32_Complete ==
    (Finished /\ Started /\ Ordered) =>
        \A j \in AtOrAfterCutoff :
            /\ Stored(tenders, Listing[j].ID) # {}
            /\ Stored(begin.tenders, Listing[j].ID) = {} =>
                   HasID(ret.nt, Listing[j].ID)

\* a run over an ordered listing of three records took the early exit at
\* the third; the two records at or after the cutoff are stored, and the
\* one of them that was not stored before is in the result
C32_Witness ==
    /\ Finished
    /\ Ordered
    /\ Len(Listing) = 3
    /\ AtOrAfterCutoff = {1, 2}
    /\ exitAt[1] = 3
    /\ Len(calls) > 1
    /\ \E j \in {1, 2} : /\ Stored(begin.tenders, Listing[j].ID) = {}
                         /\ HasID(ret.nt, Listing[j].ID)

\* the pages this run's Client has moved to after the first: by request in
\* the token- and form-session builds, by click in the browser-session one
PagesAsked ==
    IF variant = "browser" THEN MapSeq(LAMBDA e : e.page, Clicks) ELSE Requested

\* every iteration of the outer loop fails, takes the early exit, sees an
\* empty cursor or moves to a strictly later page, of which there are
\* finitely many; a token-session List call that finds no records returns
\* the empty cursor
C33_Progress ==
    /\ \A i \in 1..Len(PagesAsked) : \A j \in (i + 1)..Len(PagesAsked) :
         PagesAsked[i] < PagesAsked[j]
    /\ \A i \in 1..Len(PagesAsked) : PagesAsked[i] <= NumPages + 1
    /\ Len(calls) <= NumPages + 1
    /\ \A k \in 1..(Len(calls) - 1) :
         /\ ~calls[k].err
         /\ calls[k].next # ""
         /\ exitAt[2] # k
    /\ \A k \in 1..Len(calls) :
         (variant \in {"token", "token1"} /\ ~calls[k].err /\ calls[k].n = 0) =>
             calls[k].next = ""
    /\ (calls # <<>> /\ pc \in {"list", "dequeue", "locked"}) =>
         (~calls[Len(calls)].err /\ calls[Len(calls)].next # "" /\ exitAt = <<0, 0>>)

\* C33: termination.  A discovery run over a source of finitely many pages
\* ends, with a result or with an error: every iteration of its loop fails,
\* takes the early exit, sees an empty next cursor or moves to a strictly
\* later page, and the token-session client returns the empty cursor as
\* soon as a page has no records.
C33_Terminates == []C33_Progress /\ <>(pc = "done")

\* a token-session run of the earlier build went through two pages of
\* records, got the empty cursor with the empty third page and ended
C33_Witness ==
    /\ variant = "token1"
    /\ Finished
    /\ NumPages = 2
    /\ Requested = <<1, 2, 3>>
    /\ calls[3].n = 0
    /\ calls[3].next = ""
    /\ exitAt = <<0, 0>>

\* the readings of the wall clock since the run began
TimesOfRun == {Nows[c] : c \in begin.clock..clock}

\* the record of the listing that has this id
Listed(id) == CHOOSE d \in {source[k] : k \in 1..Len(source)} : d.ID = id

\* C35 as stated: a record listed with the year 9999 in its issued or its
\* closing date is returned with the current time in place of it, its close
\* date is not before the cutoff, and the run does not take the early exit
\* at it.
C35_NeverExits ==
    variant = "browser" =>
        \A i \in 1..Len(added) :
            LET t == added[i].t
                d == Listed(t.ID)
            IN  (d.PostDate[1] = 9999 \/ d.ClosingDate[1] = 9999) =>
                    /\ t.IssuedDate[1] # 9999 /\ t.CloseDate[1] # 9999
                    /\ ~Before(t.CloseDate, start)
                    /\ exitAt[1] # i

\* C35: placeholder dates of the browser-session source.  A record listed
\* with the year 9999 in its issued or closing date is returned with a
\* reading of the clock taken during the run in that field; the row stored
\* for it carries the date of that reading; its close date is not before
\* the cutoff, and the run does not take the early exit at it.  No record
\* is passed to add, and no row is stored, with the year 9999.
C35_SentinelDates ==
    variant = "browser" =>
        /\ \A i \in 1..Len(added) :
             LET t   == added[i].t
                 d   == Listed(t.ID)
                 row == tenders[CHOOSE k \in Stored(tenders, t.ID) : TRUE]
             IN  /\ t.IssuedDate[1] # 9999 /\ t.CloseDate[1] # 9999
                 /\ d.PostDate[1] = 9999 =>
                      /\ t.IssuedDate \in TimesOfRun
                      /\ added[i].isNew => row.issued = Format(t.IssuedDate)
                 /\ d.ClosingDate[1] = 9999 =>
                      /\ t.CloseDate \in TimesOfRun
                      /\ ~Before(t.CloseDate, start)
                      /\ exitAt[1] # i
                      /\ added[i].isNew => row.close = Format(t.CloseDate)
        /\ \A k \in 1..Len(tenders) :
             tenders[k].issued[1] # 9999 /\ tenders[k].close[1] # 9999

\* a record listed with the year 9999 in both dates was stored with the
\* date of the run in both, and the run went on to the record after it
C35_Witness ==
    /\ variant = "browser"
    /\ Finished
    /\ Len(added) >= 2
    /\ added[1].isNew
    /\ Listed(added[1].t.ID).PostDate[1] = 9999
    /\ Listed(added[1].t.ID).ClosingDate[1] = 9999
    /\ \E k \in Stored(tenders, added[1].t.ID) :
         /\ tenders[k].issued = Format(Nows[clock])
         /\ tenders[k].close = Format(Nows[clock])

\* the ids of the rows of a table
IDsOf(tbl) == {tbl[k].id : k \in 1..Len(tbl)}

\* C34: a record is reported at most once, and one inserted by a run that
\* ended with an error never.  A run that ends with an error returns no
\* result.  The ids in the results of earlier runs all have their row.  For
\* a record whose row was there when the run began, reported by an earlier
\* run or inserted by one that ended with an error, every add of this run
\* returns isNew = false, and the record is not in the result; no id is
\* twice in a result.
C34_ReportedOnce ==
    /\ (pc = "done" /\ ret.err) => ret.nt = <<>>
    /\ last.reported \subseteq IDsOf(begin.tenders)
    /\ \A id \in IDsOf(begin.tenders) :
         /\ NewIn(added, id) = {}
         /\ ~HasID(nt, id)
         /\ ~HasID(ret.nt, id)
    /\ \A i \in 1..Len(ret.nt) : \A j \in (i + 1)..Len(ret.nt) :
         ret.nt[i].ID # ret.nt[j].ID

\* the first run inserted a record and ended with an error; the second run
\* was passed the record again, got isNew = false for it and ended without
\* error, and the record is in the result of neither
C34_Witness ==
    /\ runs = 1
    /\ last.err
    /\ Finished
    /\ \E id \in IDsOf(begin.tenders) \ last.reported :
         /\ CalledOK(added, id) # {}
         /\ NewIn(added, id) = {}
         /\ ~HasID(ret.nt, id)

====
